---- MODULE Spec2Model ----
(***************************************************************************)
(* Model of the literature-review tool: the SQLite store (db_schema.py),   *)
(* the bibtex import with DOI duplicate groups (populate_db.py), the       *)
(* legacy single-pass review and the two-pass review access layers         *)
(* (app.py, web/db.py), the prompt version sync (scripts/update_prompts.py,*)
(* llm_assistant.py) and the pass-review screen of the TUI with its        *)
(* background LLM worker (app.py, PassReviewScreen).                       *)
(*                                                                         *)
(* Tables are sequences of rows in insertion order; AUTOINCREMENT ids are  *)
(* the row positions, since no table of the model ever loses a row.        *)
(***************************************************************************)
EXTENDS Integers, Sequences, FiniteSets, TLC

VARIABLES
    search,                     \* table search: sequence of source names
    document,                   \* table document
    duplicate_group,            \* table duplicate_group
    review,                     \* table review (legacy single-pass model)
    stats,                      \* statistics of the running populate_from_directory
    lastImport,                 \* the last call of add_document of that run and what it returned
    exclusion_code,             \* table exclusion_code
    pass_review,                \* table pass_review
    pass_review_exclusion_code, \* junction table, a set of <<pass_review_id, exclusion_code_id>>
    lastSave,                   \* the last save call on pass_review and how it ended
    prompt_version,             \* table prompt_version
    lastSync,                   \* the last file handled by update_prompts.main and how it ended
    screen,                     \* PassReviewScreen: its fields
    worker,                     \* the "llm" worker group of the screen: the request in flight
    llm_auto_suggest,           \* settings row llm_auto_suggest
    llm_request_log,            \* table llm_request_log
    lastCall,                   \* the last call of _get_suggestion that ended and how
    batch,                      \* scripts/batch_review.py: the documents left to process
    calls                       \* the add_document call in progress on each connection of an importer

vars == <<search, document, duplicate_group, review, stats, lastImport,
          exclusion_code, pass_review, pass_review_exclusion_code, lastSave,
          prompt_version, lastSync, screen, worker, llm_auto_suggest,
          llm_request_log, lastCall, batch, calls>>

importVars == <<search, document, duplicate_group, review, stats, lastImport, calls>>
passVars   == <<exclusion_code, pass_review, pass_review_exclusion_code, lastSave>>
promptVars == <<prompt_version, lastSync>>
tuiVars    == <<screen, worker, llm_auto_suggest>>
llmVars    == <<llm_request_log, lastCall, batch>>

\* SQL NULL and Python None of a text column or value.
NULL == "NULL"
\* SQL NULL and Python None of an integer key (AUTOINCREMENT ids start at 1).
NoId == 0

\* Bounds of the model.
MaxKeys  == 3
MaxSkips == 1

BibKeys == 1..MaxKeys
Dois    == {NULL, "", "10.1/x", "10.1/y"}
Sources == {"acm", "ieee"}

Range(s) == {s[i] : i \in 1..Len(s)}

\* `if doi is not None:` in the place of `if doi:`.
NotNone(v) == v # NULL

\* Python truthiness of a str | None value, as in `if doi:`.
Truthy(v) == v # NULL /\ v # ""

(***************************************************************************)
(* populate_db.py                                                          *)
(***************************************************************************)

\* search_exists: SELECT id FROM search WHERE source = ?
search_exists(source) == \E i \in 1..Len(search) : search[i] = source

\* The rows that SELECT id, duplicate_group_id FROM document WHERE doi = ? matches.
\* The statement has no ORDER BY, so fetchone() may return any of them.
DoiMatches(doi) == {i \in 1..Len(document) : document[i].doi = doi}

\* add_document with `existing` the row fetchone() returned (NoId: no row, or
\* the DOI check was skipped). The result holds the tables as committed, the
\* returned (doc_id, duplicate_group_id) and whether an IntegrityError escaped
\* (the INSERT into duplicate_group is outside the try block).
\* First, add_document without the UPDATE of the existing document.
add_document_no_update(existing, bibtex_key, doi, search_id) ==
    LET found    == existing # NoId
        oldGroup == IF found THEN document[existing].duplicate_group_id ELSE NoId
        create   == found /\ oldGroup = NoId
        groupDup == create /\ \E g \in 1..Len(duplicate_group) : duplicate_group[g].doi = doi
        newGid   == Len(duplicate_group) + 1
        gid      == IF create THEN newGid ELSE oldGroup
        groups1  == IF create THEN Append(duplicate_group, [id |-> newGid, doi |-> doi])
                    ELSE duplicate_group
        keyDup   == \E i \in 1..Len(document) : document[i].bibtex_key = bibtex_key
        newId    == Len(document) + 1
        row      == [id |-> newId, bibtex_key |-> bibtex_key, doi |-> doi,
                     search_id |-> search_id, duplicate_group_id |-> gid]
    IN  IF groupDup
        THEN [document |-> document, duplicate_group |-> duplicate_group,
              doc_id |-> NoId, group_id |-> NoId, raised |-> TRUE]
        ELSE IF keyDup
        THEN [document |-> document, duplicate_group |-> duplicate_group,
              doc_id |-> NoId, group_id |-> NoId, raised |-> FALSE]
        ELSE [document |-> Append(document, row), duplicate_group |-> groups1,
              doc_id |-> newId, group_id |-> gid, raised |-> FALSE]

\* add_document that gives the new document a group only when it creates one.
add_document_new_group_only(existing, bibtex_key, doi, search_id) ==
    LET found    == existing # NoId
        oldGroup == IF found THEN document[existing].duplicate_group_id ELSE NoId
        create   == found /\ oldGroup = NoId
        groupDup == create /\ \E g \in 1..Len(duplicate_group) : duplicate_group[g].doi = doi
        newGid   == Len(duplicate_group) + 1
        gid      == IF create THEN newGid ELSE NoId
        groups1  == IF create THEN Append(duplicate_group, [id |-> newGid, doi |-> doi])
                    ELSE duplicate_group
        docs1    == IF create
                    THEN [document EXCEPT ![existing].duplicate_group_id = newGid]
                    ELSE document
        keyDup   == \E i \in 1..Len(document) : document[i].bibtex_key = bibtex_key
        newId    == Len(document) + 1
        row      == [id |-> newId, bibtex_key |-> bibtex_key, doi |-> doi,
                     search_id |-> search_id, duplicate_group_id |-> gid]
    IN  IF groupDup
        THEN [document |-> document, duplicate_group |-> duplicate_group,
              doc_id |-> NoId, group_id |-> NoId, raised |-> TRUE]
        ELSE IF keyDup
        THEN [document |-> document, duplicate_group |-> duplicate_group,
              doc_id |-> NoId, group_id |-> NoId, raised |-> FALSE]
        ELSE [document |-> Append(docs1, row), duplicate_group |-> groups1,
              doc_id |-> newId, group_id |-> gid, raised |-> FALSE]

\* add_document whose except clause does not roll back.
add_document_no_rollback(existing, bibtex_key, doi, search_id) ==
    LET found    == existing # NoId
        oldGroup == IF found THEN document[existing].duplicate_group_id ELSE NoId
        create   == found /\ oldGroup = NoId
        groupDup == create /\ \E g \in 1..Len(duplicate_group) : duplicate_group[g].doi = doi
        newGid   == Len(duplicate_group) + 1
        gid      == IF create THEN newGid ELSE oldGroup
        groups1  == IF create THEN Append(duplicate_group, [id |-> newGid, doi |-> doi])
                    ELSE duplicate_group
        docs1    == IF create
                    THEN [document EXCEPT ![existing].duplicate_group_id = newGid]
                    ELSE document
        keyDup   == \E i \in 1..Len(document) : document[i].bibtex_key = bibtex_key
        newId    == Len(document) + 1
        row      == [id |-> newId, bibtex_key |-> bibtex_key, doi |-> doi,
                     search_id |-> search_id, duplicate_group_id |-> gid]
    IN  IF groupDup
        THEN [document |-> document, duplicate_group |-> duplicate_group,
              doc_id |-> NoId, group_id |-> NoId, raised |-> TRUE]
        ELSE IF keyDup
        THEN [document |-> docs1, duplicate_group |-> groups1,
              doc_id |-> NoId, group_id |-> NoId, raised |-> FALSE]
        ELSE [document |-> Append(docs1, row), duplicate_group |-> groups1,
              doc_id |-> newId, group_id |-> gid, raised |-> FALSE]

\* add_document as the code has it.
add_document(existing, bibtex_key, doi, search_id) ==
    LET found    == existing # NoId
        oldGroup == IF found THEN document[existing].duplicate_group_id ELSE NoId
        \* if not duplicate_group_id: create a new duplicate group
        create   == found /\ oldGroup = NoId
        \* duplicate_group.doi is UNIQUE; this INSERT is outside the try block
        groupDup == create /\ \E g \in 1..Len(duplicate_group) : duplicate_group[g].doi = doi
        newGid   == Len(duplicate_group) + 1
        gid      == IF create THEN newGid ELSE oldGroup
        groups1  == IF create THEN Append(duplicate_group, [id |-> newGid, doi |-> doi])
                    ELSE duplicate_group
        \* UPDATE document SET duplicate_group_id = ? WHERE id = existing.id
        docs1    == IF create
                    THEN [document EXCEPT ![existing].duplicate_group_id = newGid]
                    ELSE document
        \* document.bibtex_key is UNIQUE: IntegrityError, caught, rollback
        keyDup   == \E i \in 1..Len(document) : document[i].bibtex_key = bibtex_key
        newId    == Len(document) + 1
        row      == [id |-> newId, bibtex_key |-> bibtex_key, doi |-> doi,
                     search_id |-> search_id, duplicate_group_id |-> gid]
    IN  IF groupDup
        THEN [document |-> document, duplicate_group |-> duplicate_group,
              doc_id |-> NoId, group_id |-> NoId, raised |-> TRUE]
        ELSE IF keyDup
        THEN [document |-> document, duplicate_group |-> duplicate_group,
              doc_id |-> NoId, group_id |-> NoId, raised |-> FALSE]
        ELSE [document |-> Append(docs1, row), duplicate_group |-> groups1,
              doc_id |-> newId, group_id |-> gid, raised |-> FALSE]

\* create_review_entry that inserts a blank review for every new document.
create_review_entry_always(docs, document_id, duplicate_group_id) ==
    Append(review, [id |-> Len(review) + 1, document_id |-> document_id,
                    included |-> NULL, notes |-> NULL])

\* create_review_entry on the document table `docs`: the review table after it.
create_review_entry(docs, document_id, duplicate_group_id) ==
    LET groupHasReview ==
            \E r \in 1..Len(review) :
                docs[review[r].document_id].duplicate_group_id = duplicate_group_id
    IN  IF duplicate_group_id # NoId /\ groupHasReview
        THEN review
        ELSE Append(review, [id |-> Len(review) + 1, document_id |-> document_id,
                             included |-> NULL, notes |-> NULL])

ZeroStats == [entries_added |-> 0, duplicates_skipped |-> 0, doi_duplicates |-> 0]

\* No call of add_document yet in the running populate_from_directory.  A
\* call is kept as the row its DOI check fetched (NoId: none), the pair it
\* returned, and the statistics before it.
NoImport == [called |-> FALSE, existing |-> NoId, doc_id |-> NoId,
             group_id |-> NoId, stats_before |-> ZeroStats]

\* main, one round of its loop over the search directories up to the call of
\* populate_from_directory: a directory whose source is already imported is
\* skipped, otherwise add_search inserts the search row.
AddSearch(source) ==
    /\ ~search_exists(source)
    /\ search' = Append(search, source)
    /\ stats' = ZeroStats
    /\ lastImport' = NoImport
    /\ UNCHANGED <<document, duplicate_group, review, calls>>
    /\ UNCHANGED <<passVars, promptVars, tuiVars, llmVars>>

\* populate_from_directory, one round of its loop over the entries of the
\* directory of the search that main has just created.
ImportEntry(bibtex_key, doi) ==
    /\ Len(search) > 0
    /\ \E existing \in (IF Truthy(doi) /\ DoiMatches(doi) # {}
                        THEN DoiMatches(doi) ELSE {NoId}) :
        LET r == add_document(existing, bibtex_key, doi, Len(search))
        IN  /\ ~r.raised
            /\ document' = r.document
            /\ duplicate_group' = r.duplicate_group
            /\ lastImport' = [called |-> TRUE, existing |-> existing,
                              doc_id |-> r.doc_id, group_id |-> r.group_id,
                              stats_before |-> stats]
            /\ IF r.doc_id = NoId
               THEN /\ stats.duplicates_skipped < MaxSkips
                    /\ stats' = [stats EXCEPT !.duplicates_skipped = @ + 1]
                    /\ UNCHANGED review
               ELSE /\ stats' = [stats EXCEPT
                                    !.entries_added = @ + 1,
                                    !.doi_duplicates =
                                        IF r.group_id # NoId THEN @ + 1 ELSE @]
                    /\ review' = create_review_entry(r.document, r.doc_id, r.group_id)
    /\ UNCHANGED <<search, calls>>
    /\ UNCHANGED <<passVars, promptVars, tuiVars, llmVars>>

(***************************************************************************)
(* db_schema.py: migrate_duplicate_support, run by init_db() at the start  *)
(* of every script                                                         *)
(***************************************************************************)

\* SELECT doi FROM document WHERE doi IS NOT NULL AND doi != ''
\* GROUP BY doi HAVING COUNT(*) > 1
DuplicateDois(docs) ==
    {d \in {docs[i].doi : i \in 1..Len(docs)} :
        /\ Truthy(d)
        /\ Cardinality({i \in 1..Len(docs) : docs[i].doi = d}) > 1}

GroupOfDoi(groups, doi) ==
    IF \E g \in 1..Len(groups) : groups[g].doi = doi
    THEN CHOOSE g \in 1..Len(groups) : groups[g].doi = doi
    ELSE NoId

\* The backfill loop over the DOIs in `todo`: INSERT OR IGNORE the group,
\* read its id back, UPDATE every document with this DOI.
RECURSIVE Backfill(_, _, _)
Backfill(docs, groups, todo) ==
    IF todo = {} THEN [document |-> docs, duplicate_group |-> groups]
    ELSE LET doi     == CHOOSE d \in todo : TRUE
             groups1 == IF GroupOfDoi(groups, doi) = NoId
                        THEN Append(groups, [id |-> Len(groups) + 1, doi |-> doi])
                        ELSE groups
             gid     == GroupOfDoi(groups1, doi)
             docs1   == [i \in 1..Len(docs) |->
                            IF docs[i].doi = doi
                            THEN [docs[i] EXCEPT !.duplicate_group_id = gid]
                            ELSE docs[i]]
         IN  Backfill(docs1, groups1, todo \ {doi})

MigrateDuplicateSupport ==
    LET r == Backfill(document, duplicate_group, DuplicateDois(document))
    IN  /\ document' = r.document
        /\ duplicate_group' = r.duplicate_group
        /\ UNCHANGED <<search, review, stats, lastImport, calls>>
        /\ UNCHANGED <<passVars, promptVars, tuiVars, llmVars>>

(***************************************************************************)
(* app.py: the legacy single-pass review                                   *)
(***************************************************************************)

\* bool(row["included"]) of a non-null INTEGER column, and int(included).
BoolOfInt(v) == IF v = NULL THEN NULL ELSE IF v = "0" THEN "False" ELSE "True"
IntOfBool(b) == IF b = NULL THEN NULL ELSE IF b = "True" THEN "1" ELSE "0"

\* COALESCE(a, b)
Coalesce(a, b) == IF a # NULL THEN a ELSE b
CoalesceId(a, b) == IF a # NoId THEN a ELSE b

\* LEFT JOIN review r ON r.document_id = d.id (review.document_id is UNIQUE)
OwnReview(d) ==
    IF \E r \in 1..Len(review) : review[r].document_id = d
    THEN CHOOSE r \in 1..Len(review) : review[r].document_id = d
    ELSE NoId

\* The rows of the subquery group_review that join document d:
\* d.duplicate_group_id = group_review.dup_group_id AND r.id IS NULL
GroupReviews(d) ==
    {r \in 1..Len(review) :
        /\ OwnReview(d) = NoId
        /\ document[review[r].document_id].duplicate_group_id # NoId
        /\ document[d].duplicate_group_id
              = document[review[r].document_id].duplicate_group_id}

\* The result rows of the query of get_documents_for_search and
\* get_all_documents for document d, as Document objects: one per joined
\* group_review row, or one with the group_review columns null.
DocumentRows(d) ==
    LET own == OwnReview(d)
        oid == IF own = NoId THEN NoId ELSE review[own].id
        oin == IF own = NoId THEN NULL ELSE review[own].included
        ono == IF own = NoId THEN NULL ELSE review[own].notes
        row(gid, gin, gno) ==
            [id |-> d, search_id |-> document[d].search_id,
             duplicate_group_id |-> document[d].duplicate_group_id,
             review_id |-> CoalesceId(oid, gid),
             included |-> BoolOfInt(Coalesce(oin, gin)),
             notes |-> Coalesce(ono, gno)]
    IN  IF GroupReviews(d) = {}
        THEN {row(NoId, NULL, NULL)}
        ELSE {row(review[g].id, review[g].included, review[g].notes) :
                g \in GroupReviews(d)}

get_documents_for_search(search_id) ==
    UNION {DocumentRows(d) :
            d \in {i \in 1..Len(document) : document[i].search_id = search_id}}

get_all_documents == UNION {DocumentRows(d) : d \in 1..Len(document)}

\* save_review: UPDATE review SET included = ?, notes = ? WHERE id = ?
save_review(review_id, included, notes) ==
    [r \in 1..Len(review) |->
        IF review[r].id = review_id
        THEN [review[r] EXCEPT !.included = IntOfBool(included), !.notes = notes]
        ELSE review[r]]

\* ReviewScreen opened on document d (on_mount reads get_documents_for_search)
\* and a decision taken there: action_accept, handle_codes of action_reject,
\* action_undo_decision; each ends in _save_current, which saves through the
\* review_id of the row read at mount.
ReviewDecision(d, included) ==
    /\ d \in 1..Len(document)
    /\ \E row \in DocumentRows(d) :
        /\ row.review_id # NoId
        /\ review' = save_review(row.review_id, included, row.notes)
    /\ UNCHANGED <<search, document, duplicate_group, stats, lastImport, calls>>
    /\ UNCHANGED <<passVars, promptVars, tuiVars, llmVars>>

(***************************************************************************)
(* The two-pass review: app.py (TUI) and web/db.py (web)                   *)
(***************************************************************************)

Decisions == {"include", "exclude", "uncertain"}

\* An optional value (a PassReview | None, an LLMSuggestion | None, a
\* list | None): the empty sequence for None, <<v>> for a value v.
None == <<>>
Some(v) == <<v>>

\* migrate_pass_review_support: the default exclusion codes, in id order.
DefaultExclusionCodes == <<"EX1", "EX2", "EX3", "EX5", "EX6">>

\* SELECT id FROM exclusion_code WHERE code = ? (exclusion_code.code is UNIQUE)
CodeId(code) ==
    IF \E c \in 1..Len(exclusion_code) : exclusion_code[c].code = code
    THEN exclusion_code[CHOOSE c \in 1..Len(exclusion_code) :
                            exclusion_code[c].code = code].id
    ELSE NoId

\* SELECT id FROM pass_review WHERE document_id = ? AND pass_number = ?
\* on the table prs (UNIQUE(document_id, pass_number)).
PassReviewRow(prs, document_id, pass_number) ==
    IF \E r \in 1..Len(prs) :
            prs[r].document_id = document_id /\ prs[r].pass_number = pass_number
    THEN CHOOSE r \in 1..Len(prs) :
            prs[r].document_id = document_id /\ prs[r].pass_number = pass_number
    ELSE NoId

\* json.dumps of an LLMSuggestion in save_pass_review (app.py): the fields of
\* the object; the document the request was made for is no field of it.
SuggestionToJson(opt) ==
    IF opt = None THEN None
    ELSE Some([decision |-> opt[1].decision,
               reasoning |-> opt[1].reasoning,
               confidence |-> opt[1].confidence,
               exclusion_codes |-> opt[1].exclusion_codes,
               raw_response |-> opt[1].raw_response,
               error |-> opt[1].error,
               domain |-> opt[1].domain])

\* json.loads into an LLMSuggestion in get_pass_review (app.py).
SuggestionFromJson(json) ==
    IF json = None THEN None
    ELSE Some([decision |-> json[1].decision,
               reasoning |-> json[1].reasoning,
               confidence |-> json[1].confidence,
               exclusion_codes |-> json[1].exclusion_codes,
               raw_response |-> json[1].raw_response,
               error |-> json[1].error,
               log_id |-> NoId,
               domain |-> json[1].domain,
               document_id |-> NoId])

\* The same in web/db.py, whose LLMSuggestion has no error field.
WebSuggestionFromJson(json) ==
    IF json = None THEN None
    ELSE Some([decision |-> json[1].decision,
               reasoning |-> json[1].reasoning,
               confidence |-> json[1].confidence,
               exclusion_codes |-> json[1].exclusion_codes,
               domain |-> json[1].domain])

\* SELECT ec.code FROM pass_review_exclusion_code prec
\* JOIN exclusion_code ec ON ec.id = prec.exclusion_code_id
\* WHERE prec.pass_review_id = ?     (no ORDER BY: the codes as a set)
ReviewCodes(pass_review_id) ==
    {exclusion_code[c].code :
        c \in {c \in 1..Len(exclusion_code) :
                <<pass_review_id, exclusion_code[c].id>>
                    \in pass_review_exclusion_code}}

\* get_pass_review of app.py on the tables prs and junction: None, or the
\* PassReview of the row.
PassReviewIn(prs, junction, document_id, pass_number) ==
    LET r == PassReviewRow(prs, document_id, pass_number)
    IN  IF r = NoId THEN None
        ELSE Some([id |-> prs[r].id,
                   document_id |-> prs[r].document_id,
                   pass_number |-> prs[r].pass_number,
                   decision |-> prs[r].decision,
                   notes |-> prs[r].notes,
                   llm_suggestion |-> SuggestionFromJson(prs[r].llm_suggestion),
                   llm_accepted |-> BoolOfInt(prs[r].llm_accepted),
                   exclusion_codes |->
                        {exclusion_code[c].code :
                            c \in {c \in 1..Len(exclusion_code) :
                                    <<prs[r].id, exclusion_code[c].id>> \in junction}}])

\* get_pass_review of app.py on the store.
get_pass_review(document_id, pass_number) ==
    PassReviewIn(pass_review, pass_review_exclusion_code, document_id, pass_number)

\* get_pass_review of web/db.py.
web_get_pass_review(document_id, pass_number) ==
    LET r == PassReviewRow(pass_review, document_id, pass_number)
    IN  IF r = NoId THEN None
        ELSE Some([id |-> pass_review[r].id,
                   document_id |-> pass_review[r].document_id,
                   pass_number |-> pass_review[r].pass_number,
                   decision |-> pass_review[r].decision,
                   notes |-> pass_review[r].notes,
                   llm_suggestion |-> WebSuggestionFromJson(pass_review[r].llm_suggestion),
                   llm_accepted |-> BoolOfInt(pass_review[r].llm_accepted),
                   exclusion_codes |-> ReviewCodes(pass_review[r].id)])

\* The CHECK constraints of pass_review.
PassReviewChecks(pass_number, decision) ==
    /\ pass_number \in {1, 2}
    /\ decision \in Decisions \cup {NULL}

\* INSERT INTO pass_review ... ON CONFLICT(document_id, pass_number) DO UPDATE
\* SET the columns named in `updated` from the new row.
Upsert(row, updated) ==
    LET r == PassReviewRow(pass_review, row.document_id, row.pass_number)
    IN  IF r = NoId
        THEN Append(pass_review, [row EXCEPT !.id = Len(pass_review) + 1])
        ELSE [pass_review EXCEPT ![r] =
                [f \in DOMAIN row |->
                    IF f \in updated THEN row[f] ELSE pass_review[r][f]]]

\* save_pass_review of app.py: the table after it and whether it raised.
save_pass_review(document_id, pass_number, decision, notes, llm_suggestion, llm_accepted) ==
    LET row == [id |-> NoId, document_id |-> document_id, pass_number |-> pass_number,
                decision |-> decision, notes |-> notes,
                llm_suggestion |-> SuggestionToJson(llm_suggestion),
                llm_accepted |-> IntOfBool(llm_accepted),
                llm_request_log_id |-> NoId]
    IN  IF ~PassReviewChecks(pass_number, decision)
        THEN [pass_review |-> pass_review, id |-> NoId, raised |-> TRUE]
        ELSE LET prs == Upsert(row, {"decision", "notes", "llm_suggestion", "llm_accepted"})
             IN  [pass_review |-> prs,
                  id |-> prs[PassReviewRow(prs, document_id, pass_number)].id,
                  raised |-> FALSE]

\* A list that holds one value twice.
HasRepeat(list) == \E i, j \in 1..Len(list) : i < j /\ list[i] = list[j]

\* set_pass_review_exclusion_codes of app.py: DELETE, then one INSERT per id.
\* A repeated id violates UNIQUE(pass_review_id, exclusion_code_id): the
\* IntegrityError leaves the function before commit() and the connection is
\* dropped, which rolls the DELETE and the INSERTs back.
set_pass_review_exclusion_codes(pass_review_id, code_ids) ==
    IF HasRepeat(code_ids)
    THEN [codes |-> pass_review_exclusion_code, raised |-> TRUE]
    ELSE [codes |-> {x \in pass_review_exclusion_code : x[1] # pass_review_id}
                        \cup {<<pass_review_id, c>> : c \in Range(code_ids)},
          raised |-> FALSE]

\* The ids the loop of save_pass_review (web/db.py) inserts: those of the
\* codes of the list that exclusion_code holds, in list order.
RECURSIVE KnownIds(_)
KnownIds(codes) ==
    IF codes = <<>> THEN <<>>
    ELSE IF CodeId(Head(codes)) = NoId THEN KnownIds(Tail(codes))
         ELSE <<CodeId(Head(codes))>> \o KnownIds(Tail(codes))

\* The same without the DELETE of the codes stored before.
web_save_codes_no_delete(pass_review_id, exclusion_codes) ==
    IF exclusion_codes = None
    THEN [codes |-> pass_review_exclusion_code, raised |-> FALSE]
    ELSE IF HasRepeat(KnownIds(exclusion_codes[1]))
    THEN [codes |-> pass_review_exclusion_code, raised |-> TRUE]
    ELSE [codes |-> pass_review_exclusion_code
                        \cup {<<pass_review_id, c>> : c \in Range(KnownIds(exclusion_codes[1]))},
          raised |-> FALSE]

\* save_pass_review of web/db.py, the part after the first commit: the
\* junction table after it and whether it raised (then the second commit is
\* not reached and the connection is dropped: rollback).
web_save_codes(pass_review_id, exclusion_codes) ==
    IF exclusion_codes = None
    THEN [codes |-> pass_review_exclusion_code, raised |-> FALSE]
    ELSE IF HasRepeat(KnownIds(exclusion_codes[1]))
    THEN [codes |-> pass_review_exclusion_code, raised |-> TRUE]
    ELSE [codes |-> {x \in pass_review_exclusion_code : x[1] # pass_review_id}
                        \cup {<<pass_review_id, c>> : c \in Range(KnownIds(exclusion_codes[1]))},
          raised |-> FALSE]

\* save_pass_review of web/db.py, the part up to the first commit: the stored
\* llm_suggestion and llm_accepted are read and written back on insert, and the
\* update sets decision and notes only.
web_save_pass_review(document_id, pass_number, decision, notes) ==
    LET r   == PassReviewRow(pass_review, document_id, pass_number)
        row == [id |-> NoId, document_id |-> document_id, pass_number |-> pass_number,
                decision |-> decision, notes |-> notes,
                llm_suggestion |-> IF r = NoId THEN None ELSE pass_review[r].llm_suggestion,
                llm_accepted |-> IF r = NoId THEN NULL ELSE pass_review[r].llm_accepted,
                llm_request_log_id |-> NoId]
    IN  IF ~PassReviewChecks(pass_number, decision)
        THEN [pass_review |-> pass_review, id |-> NoId, raised |-> TRUE]
        ELSE LET prs == Upsert(row, {"decision", "notes"})
             IN  [pass_review |-> prs,
                  id |-> prs[PassReviewRow(prs, document_id, pass_number)].id,
                  raised |-> FALSE]

NoSave == [api |-> "none", document_id |-> NoId, pass_number |-> 0,
           decision |-> NULL, notes |-> NULL, exclusion_codes |-> None,
           code_ids |-> <<>>, raised |-> FALSE, codes_before |-> {}]

\* The exclusion codes stored for (document_id, pass_number).
StoredCodes(document_id, pass_number) ==
    IF PassReviewRow(pass_review, document_id, pass_number) = NoId THEN {}
    ELSE ReviewCodes(pass_review[PassReviewRow(pass_review, document_id, pass_number)].id)

\* api_save_review (web/app.py): POST /api/documents/<doc_id>/review.
\* exclusion_codes is None when the body has no such key.
ApiSaveReview(doc_id, pass_number, decision, notes, exclusion_codes) ==
    /\ decision \in Decisions \cup {NULL}
    /\ LET s == web_save_pass_review(doc_id, pass_number, decision, notes)
           c == web_save_codes(s.id, exclusion_codes)
       IN  /\ pass_review' = s.pass_review
           /\ pass_review_exclusion_code' = IF s.raised THEN pass_review_exclusion_code
                                            ELSE c.codes
           /\ lastSave' = [api |-> "web", document_id |-> doc_id,
                           pass_number |-> pass_number, decision |-> decision,
                           notes |-> notes, exclusion_codes |-> exclusion_codes,
                           code_ids |-> <<>>, raised |-> s.raised \/ c.raised,
                           codes_before |-> StoredCodes(doc_id, pass_number)]
    /\ UNCHANGED exclusion_code
    /\ UNCHANGED <<importVars, promptVars, tuiVars, llmVars>>

\* save_pass_review followed by set_pass_review_exclusion_codes (app.py), as
\* _make_decision calls them for a decision with codes (no LLM suggestion).
SaveThenSetCodes(doc_id, pass_number, decision, notes, code_ids) ==
    LET s == save_pass_review(doc_id, pass_number, decision, notes, None, NULL)
        c == set_pass_review_exclusion_codes(s.id, code_ids)
    IN  /\ pass_review' = s.pass_review
        /\ pass_review_exclusion_code' = IF s.raised THEN pass_review_exclusion_code
                                         ELSE c.codes
        /\ lastSave' = [api |-> "tui", document_id |-> doc_id,
                        pass_number |-> pass_number, decision |-> decision,
                        notes |-> notes, exclusion_codes |-> None,
                        code_ids |-> code_ids, raised |-> s.raised \/ c.raised,
                        codes_before |-> StoredCodes(doc_id, pass_number)]
        /\ UNCHANGED exclusion_code
        /\ UNCHANGED <<importVars, promptVars, tuiVars, llmVars>>

\* update_llm_accepted that also clears the decision of a rejected review.
update_llm_accepted_and_decision(document_id, pass_number, accepted) ==
    [r \in 1..Len(pass_review) |->
        IF pass_review[r].document_id = document_id
            /\ pass_review[r].pass_number = pass_number
        THEN [pass_review[r] EXCEPT
                !.llm_accepted = IF accepted THEN "1" ELSE "0",
                !.decision = IF accepted THEN @ ELSE NULL]
        ELSE pass_review[r]]

\* update_llm_accepted of web/db.py:
\* UPDATE pass_review SET llm_accepted = ? WHERE document_id = ? AND pass_number = ?
update_llm_accepted(document_id, pass_number, accepted) ==
    [r \in 1..Len(pass_review) |->
        IF pass_review[r].document_id = document_id
            /\ pass_review[r].pass_number = pass_number
        THEN [pass_review[r] EXCEPT !.llm_accepted = IF accepted THEN "1" ELSE "0"]
        ELSE pass_review[r]]

\* api_llm_accept (web/app.py): POST /api/documents/<doc_id>/llm-accept.
ApiLlmAccept(doc_id, pass_number, accepted) ==
    /\ pass_review' = update_llm_accepted(doc_id, pass_number, accepted)
    /\ lastSave' = [NoSave EXCEPT
                        !.api = IF accepted THEN "llm-accept" ELSE "llm-reject",
                        !.document_id = doc_id, !.pass_number = pass_number,
                        !.codes_before = StoredCodes(doc_id, pass_number)]
    /\ UNCHANGED <<exclusion_code, pass_review_exclusion_code>>
    /\ UNCHANGED <<importVars, promptVars, tuiVars, llmVars>>

\* JOIN pass_review pr ON pr.document_id = d.id, without the pass number.
AnyPassJoin(d) ==
    {r \in 1..Len(pass_review) :
        /\ pass_review[r].document_id = d
        /\ pass_review[r].decision \in {"include", "uncertain"}}

\* JOIN pass_review pr ON pr.document_id = d.id AND pr.pass_number = 1
\* WHERE pr.decision IN ('include', 'uncertain'): the rows joined to document d.
Pass1Join(d) ==
    {r \in 1..Len(pass_review) :
        /\ pass_review[r].document_id = d
        /\ pass_review[r].pass_number = 1
        /\ pass_review[r].decision \in {"include", "uncertain"}}

\* The ids of the rows the two queries of get_documents_for_pass_review and of
\* get_documents_for_pass select, in ORDER BY d.id: one per document of the
\* search for pass 1, one per joined pass_review row for any other pass.
PassDocumentIds(search_id, pass_number) ==
    LET F[d \in 0..Len(document)] ==
            IF d = 0 THEN <<>>
            ELSE F[d - 1] \o
                 (IF document[d].search_id # search_id THEN <<>>
                  ELSE IF pass_number = 1 THEN <<d>>
                  ELSE [i \in 1..Cardinality(Pass1Join(d)) |-> d])
    IN  F[Len(document)]

\* The ids of a list of Document objects.
Ids(docs) == [i \in 1..Len(docs) |-> docs[i].id]

\* get_documents_for_pass_review of app.py: the Document objects, with the
\* document's own legacy review (LEFT JOIN review r ON r.document_id = d.id).
get_documents_for_pass_review(search_id, pass_number) ==
    LET ids == PassDocumentIds(search_id, pass_number)
    IN  [i \in 1..Len(ids) |->
            LET d == ids[i]
                r == OwnReview(d)
            IN  [id |-> d, search_id |-> document[d].search_id,
                 duplicate_group_id |-> document[d].duplicate_group_id,
                 review_id |-> r,
                 included |-> IF r = NoId THEN NULL ELSE BoolOfInt(review[r].included),
                 notes |-> IF r = NoId THEN NULL ELSE review[r].notes]]

\* get_documents_for_pass of web/db.py: the Document objects, without review.
get_documents_for_pass(search_id, pass_number) ==
    LET ids == PassDocumentIds(search_id, pass_number)
    IN  [i \in 1..Len(ids) |->
            LET d == ids[i]
            IN  [id |-> d, search_id |-> document[d].search_id,
                 duplicate_group_id |-> document[d].duplicate_group_id]]

\* The pass_review rows of the documents of a search, whatever the pass.
PassRowsAnyPass(search_id, pass_number) ==
    {r \in 1..Len(pass_review) :
        /\ pass_review[r].document_id \in 1..Len(document)
        /\ document[pass_review[r].document_id].search_id = search_id}

\* FROM pass_review pr JOIN document d ON d.id = pr.document_id
\* WHERE d.search_id = ? AND pr.pass_number = ?
PassRows(search_id, pass_number) ==
    {r \in 1..Len(pass_review) :
        /\ pass_review[r].document_id \in 1..Len(document)
        /\ document[pass_review[r].document_id].search_id = search_id
        /\ pass_review[r].pass_number = pass_number}

\* SUM(CASE WHEN decision = ? THEN 1 ELSE 0 END) ... or 0
CountDecision(search_id, pass_number, decision) ==
    Cardinality({r \in PassRows(search_id, pass_number) :
                    pass_review[r].decision = decision})

\* SELECT COUNT(*) as total FROM document WHERE search_id = ?
TotalDocuments(search_id) ==
    Cardinality({d \in 1..Len(document) : document[d].search_id = search_id})

\* get_pass_progress of app.py: reviewed is COUNT(*) of the rows of the pass.
get_pass_progress(search_id) ==
    [total |-> TotalDocuments(search_id),
     pass1 |-> [reviewed |-> Cardinality(PassRows(search_id, 1)),
                included |-> CountDecision(search_id, 1, "include"),
                excluded |-> CountDecision(search_id, 1, "exclude"),
                uncertain |-> CountDecision(search_id, 1, "uncertain")],
     pass2 |-> [eligible |-> CountDecision(search_id, 1, "include")
                                + CountDecision(search_id, 1, "uncertain"),
                reviewed |-> Cardinality(PassRows(search_id, 2)),
                included |-> CountDecision(search_id, 2, "include"),
                excluded |-> CountDecision(search_id, 2, "exclude"),
                uncertain |-> CountDecision(search_id, 2, "uncertain")]]

\* get_pass_progress of web/db.py: human_reviewed counts the rows with a
\* decision, llm_reviewed those with a suggestion.
web_get_pass_progress(search_id) ==
    LET human(p) == Cardinality({r \in PassRows(search_id, p) :
                                    pass_review[r].decision # NULL})
        llm(p)   == Cardinality({r \in PassRows(search_id, p) :
                                    pass_review[r].llm_suggestion # None})
    IN  [total |-> TotalDocuments(search_id),
         pass1 |-> [human_reviewed |-> human(1), llm_reviewed |-> llm(1),
                    included |-> CountDecision(search_id, 1, "include"),
                    excluded |-> CountDecision(search_id, 1, "exclude"),
                    uncertain |-> CountDecision(search_id, 1, "uncertain")],
         pass2 |-> [eligible |-> CountDecision(search_id, 1, "include")
                                    + CountDecision(search_id, 1, "uncertain"),
                    human_reviewed |-> human(2), llm_reviewed |-> llm(2),
                    included |-> CountDecision(search_id, 2, "include"),
                    excluded |-> CountDecision(search_id, 2, "exclude"),
                    uncertain |-> CountDecision(search_id, 2, "uncertain")]]

(***************************************************************************)
(* Prompt versions: scripts/update_prompts.py and llm_assistant.py          *)
(***************************************************************************)

PromptNames == {"inclusion_criteria", "exclusion_criteria"}
Contents    == {"A", "B", "C"}

\* compute_hash: the SHA-256 hex digest of the content (first 8 digits).
compute_hash(content) ==
    CASE content = "A" -> "559aead0"
      [] content = "B" -> "df7e70e5"
      [] content = "C" -> "6b23c0d5"

\* The positions of the rows of prompt_name in prompt_version.
NameRows(prompt_name) ==
    {r \in 1..Len(prompt_version) : prompt_version[r].prompt_name = prompt_name}

\* get_latest_version: (id, content_hash) of the row of ORDER BY id DESC
\* LIMIT 1, or None.
get_latest_version(prompt_name) ==
    IF NameRows(prompt_name) = {} THEN None
    ELSE LET r == CHOOSE r \in NameRows(prompt_name) :
                    \A q \in NameRows(prompt_name) :
                        prompt_version[q].id <= prompt_version[r].id
         IN  Some(<<prompt_version[r].id, prompt_version[r].content_hash>>)

\* insert_prompt_version: the table after the INSERT and commit, the new id,
\* and whether UNIQUE(prompt_name, content_hash) raised sqlite3.IntegrityError
\* (nothing is inserted then, and main does not catch it).
insert_prompt_version(prompt_name, content, content_hash) ==
    IF \E r \in NameRows(prompt_name) : prompt_version[r].content_hash = content_hash
    THEN [prompt_version |-> prompt_version, id |-> NoId, raised |-> TRUE]
    ELSE [prompt_version |->
            Append(prompt_version,
                   [id |-> Len(prompt_version) + 1, prompt_name |-> prompt_name,
                    content |-> content, content_hash |-> content_hash]),
          id |-> Len(prompt_version) + 1, raised |-> FALSE]

\* The aggregate of the subquery of get_active_prompts with MIN in place of MAX.
MinId(prompt_name) ==
    CHOOSE i \in {prompt_version[r].id : r \in NameRows(prompt_name)} :
        \A r \in NameRows(prompt_name) : i <= prompt_version[r].id

\* SELECT prompt_name, MAX(id) as max_id FROM prompt_version GROUP BY
\* prompt_name: max_id of the group of prompt_name.
MaxId(prompt_name) ==
    CHOOSE i \in {prompt_version[r].id : r \in NameRows(prompt_name)} :
        \A r \in NameRows(prompt_name) : i >= prompt_version[r].id

\* The rows of the query of get_active_prompts:
\* prompt_version pv INNER JOIN latest ON pv.id = latest.max_id
ActiveRows ==
    {r \in 1..Len(prompt_version) :
        \E n \in {prompt_version[q].prompt_name : q \in 1..Len(prompt_version)} :
            prompt_version[r].id = MaxId(n)}

\* get_active_prompts: the dict built from the rows, as the set of values
\* (id, content) the loop assigns to each key.
get_active_prompts ==
    [n \in {prompt_version[r].prompt_name : r \in ActiveRows} |->
        {<<prompt_version[r].id, prompt_version[r].content>> :
            r \in {q \in ActiveRows : prompt_version[q].prompt_name = n}}]

NoSync == [prompt_name |-> NULL, content |-> NULL, result |-> "none",
           rows_before |-> 0, latest_before |-> NULL, older |-> FALSE]

\* main, one round of its loop for a prompt file that parses to
\* (prompt_name, content).  lastSync keeps what the round saw and printed.
SyncPrompt(prompt_name, content) ==
    LET content_hash == compute_hash(content)
        latest       == get_latest_version(prompt_name)
        ins          == insert_prompt_version(prompt_name, content, content_hash)
        insert       == latest = None \/ latest[1][2] # content_hash
        seen         == [prompt_name |-> prompt_name, content |-> content,
                         result |-> "none",
                         rows_before |-> Cardinality(NameRows(prompt_name)),
                         latest_before |->
                            IF latest = None THEN NULL
                            ELSE prompt_version[latest[1][1]].content,
                         older |-> \E r \in NameRows(prompt_name) :
                                    /\ prompt_version[r].content = content
                                    /\ prompt_version[r].id # latest[1][1]]
    IN  /\ prompt_version' = IF insert THEN ins.prompt_version ELSE prompt_version
        /\ lastSync' = [seen EXCEPT !.result =
                            IF insert /\ ins.raised THEN "IntegrityError"
                            ELSE IF latest = None THEN "NEW"
                            ELSE IF insert THEN "UPDATED"
                            ELSE "unchanged"]
        /\ UNCHANGED <<importVars, passVars, tuiVars, llmVars>>

\* main, one round of its loop for a file parse_prompt_file rejects.
SyncInvalidFile ==
    /\ lastSync' = [NoSync EXCEPT !.result = "ERROR"]
    /\ UNCHANGED prompt_version
    /\ UNCHANGED <<importVars, passVars, tuiVars, llmVars>>

(***************************************************************************)
(* llm_assistant.py: the reply of the model server, _parse_llm_response,   *)
(* _get_suggestion and log_llm_request                                     *)
(***************************************************************************)

\* A reply text is a sequence of lines and a line a sequence of tokens: a
\* brace, a code fence ("```" with or without a language tag), a word of
\* prose, a JSON number, or a member "key": value of a JSON object.
Tok(t) == [t |-> t, key |-> "", type |-> "", str |-> "", list |-> <<>>, num |-> 0]
Open   == Tok("{")
Close  == Tok("}")
Fence  == Tok("fence")
Word   == Tok("word")
Number == Tok("number")

StrPair(key, str)   == [Tok("pair") EXCEPT !.key = key, !.type = "string", !.str = str]
NullPair(key)       == [Tok("pair") EXCEPT !.key = key, !.type = "null"]
ListPair(key, list) == [Tok("pair") EXCEPT !.key = key, !.type = "list", !.list = list]
NumPair(key, num)   == [Tok("pair") EXCEPT !.key = key, !.type = "number", !.num = num]

\* str.strip() on a text: the empty lines at both ends go.
RECURSIVE Strip(_)
Strip(text) ==
    IF text = <<>> THEN text
    ELSE IF Head(text) = <<>> THEN Strip(Tail(text))
    ELSE IF text[Len(text)] = <<>> THEN Strip(SubSeq(text, 1, Len(text) - 1))
    ELSE text

\* line.startswith("```")
StartsWithFence(line) == line # <<>> /\ line[1] = Fence

\* "\n".join(lines): the tokens of the lines in order.
RECURSIVE Join(_)
Join(lines) == IF lines = <<>> THEN <<>> ELSE Head(lines) \o Join(Tail(lines))

\* The loop of _parse_llm_response over the lines of a text that starts with
\* a fence: the lines after the first fence line up to the next one.
FencedLines(lines) ==
    LET closing == {i \in 2..Len(lines) : StartsWithFence(lines[i])}
        last    == IF closing = {} THEN Len(lines)
                   ELSE (CHOOSE i \in closing : \A j \in closing : i <= j) - 1
    IN  SubSeq(lines, 2, last)

\* json.loads of a token sequence: an object of members, a number, or
\* json.JSONDecodeError.
json_loads(toks) ==
    IF /\ Len(toks) >= 2 /\ toks[1] = Open /\ toks[Len(toks)] = Close
       /\ \A i \in 2..(Len(toks) - 1) : toks[i].t = "pair"
    THEN [ok |-> TRUE, dict |-> TRUE, pairs |-> SubSeq(toks, 2, Len(toks) - 1)]
    ELSE IF Len(toks) = 1 /\ toks[1] = Number
    THEN [ok |-> TRUE, dict |-> FALSE, pairs |-> <<>>]
    ELSE [ok |-> FALSE, dict |-> FALSE, pairs |-> <<>>]

\* _parse_llm_response: strip, take the lines of the code block when the text
\* starts with a fence, cut from the first "{" to the last "}" when there are
\* both in this order, json.loads.
parse_llm_response(response) ==
    LET text   == Strip(response)
        lines  == IF text # <<>> /\ StartsWithFence(text[1])
                  THEN FencedLines(text) ELSE text
        toks   == Join(lines)
        opens  == {i \in 1..Len(toks) : toks[i] = Open}
        closes == {i \in 1..Len(toks) : toks[i] = Close}
        start  == IF opens = {} THEN 0
                  ELSE CHOOSE i \in opens : \A j \in opens : i <= j
        end    == IF closes = {} THEN 0
                  ELSE CHOOSE i \in closes : \A j \in closes : i >= j
    IN  json_loads(IF start # 0 /\ end > start THEN SubSeq(toks, start, end)
                   ELSE toks)

\* dict.get on the members of a parsed object (the last member of a key wins).
HasKey(pairs, key) == \E i \in 1..Len(pairs) : pairs[i].key = key
Member(pairs, key) ==
    pairs[CHOOSE i \in 1..Len(pairs) :
            /\ pairs[i].key = key
            /\ \A j \in 1..Len(pairs) : pairs[j].key = key => j <= i]

\* A confidence in percent; NoNumber is the SQL NULL of a REAL column.
NoNumber == -1

\* The LLMSuggestion of the json.JSONDecodeError branch.
ParseFailure(raw_response) ==
    [decision |-> "uncertain", reasoning |-> "", confidence |-> 0,
     exclusion_codes |-> <<>>, raw_response |-> raw_response,
     error |-> "Failed to parse LLM response as JSON", log_id |-> NoId,
     domain |-> NULL, document_id |-> NoId]

\* The LLMSuggestion of the `except Exception` branch (raw_response keeps its
\* default).
RequestFailure ==
    [decision |-> "uncertain", reasoning |-> "", confidence |-> 0,
     exclusion_codes |-> <<>>, raw_response |-> <<>>,
     error |-> "LLM request failed", log_id |-> NoId,
     domain |-> NULL, document_id |-> NoId]

\* parsed.get("decision", "uncertain"): the value of the member, whatever it
\* is (JSON null is None).
DecisionOf(pairs) ==
    IF ~HasKey(pairs, "decision") THEN "uncertain"
    ELSE IF Member(pairs, "decision").type = "null" THEN NULL
         ELSE Member(pairs, "decision").str

\* The try block of _get_suggestion for a reply: reply.failed says that
\* client.chat raised.  float() of a confidence that is no number raises, and
\* so does parsed.get on a JSON value that is no object.
SuggestionOf(reply) ==
    IF reply.failed THEN RequestFailure
    ELSE LET parsed == parse_llm_response(reply.text)
             pairs  == parsed.pairs
         IN  IF ~parsed.ok THEN ParseFailure(reply.text)
             ELSE IF ~parsed.dict THEN RequestFailure
             ELSE IF HasKey(pairs, "confidence")
                        /\ Member(pairs, "confidence").type # "number"
             THEN RequestFailure
             ELSE [decision |-> DecisionOf(pairs),
                   reasoning |-> IF HasKey(pairs, "reasoning")
                                 THEN Member(pairs, "reasoning").str ELSE "",
                   confidence |-> IF HasKey(pairs, "confidence")
                                  THEN Member(pairs, "confidence").num ELSE 50,
                   exclusion_codes |-> IF HasKey(pairs, "exclusion_codes")
                                       THEN Member(pairs, "exclusion_codes").list
                                       ELSE <<>>,
                   raw_response |-> reply.text,
                   error |-> NULL, log_id |-> NoId,
                   domain |-> IF HasKey(pairs, "domain")
                                 /\ Member(pairs, "domain").type = "string"
                                 /\ Member(pairs, "domain").str \in {"health", "ecological"}
                              THEN Member(pairs, "domain").str ELSE NULL,
                   document_id |-> NoId]

\* log_llm_request without the `if not suggestion.error` on its columns.
LogRowWithErrorColumns(document_id, pass_number, suggestion) ==
    [id |-> Len(llm_request_log) + 1,
     document_id |-> document_id, pass_number |-> pass_number,
     raw_response |-> suggestion.raw_response,
     decision |-> suggestion.decision,
     confidence |-> suggestion.confidence,
     reasoning |-> suggestion.reasoning,
     exclusion_codes |-> IF suggestion.exclusion_codes # <<>>
                         THEN Some(suggestion.exclusion_codes) ELSE None,
     domain |-> suggestion.domain,
     error |-> suggestion.error]

\* log_llm_request: the row it inserts for a suggestion.
LogRow(document_id, pass_number, suggestion) ==
    [id |-> Len(llm_request_log) + 1,
     document_id |-> document_id, pass_number |-> pass_number,
     raw_response |-> suggestion.raw_response,
     decision |-> IF suggestion.error = NULL THEN suggestion.decision ELSE NULL,
     confidence |-> IF suggestion.error = NULL THEN suggestion.confidence ELSE NoNumber,
     reasoning |-> IF suggestion.error = NULL THEN suggestion.reasoning ELSE NULL,
     exclusion_codes |-> IF suggestion.exclusion_codes # <<>>
                         THEN Some(suggestion.exclusion_codes) ELSE None,
     domain |-> IF suggestion.error = NULL THEN suggestion.domain ELSE NULL,
     error |-> suggestion.error]

\* suggestion.error += f"; Logging failed: {log_error}", or the text alone.
WithLoggingFailed(error) ==
    CASE error = NULL -> "Logging failed"
      [] error = "Failed to parse LLM response as JSON"
            -> "Failed to parse LLM response as JSON; Logging failed"
      [] error = "LLM request failed" -> "LLM request failed; Logging failed"

\* _get_suggestion from the return of client.chat on: the suggestion it
\* returns and the log table after it.  log_fails says that log_llm_request
\* raised (the database is locked, the disk is full).
get_suggestion(document_id, pass_number, reply, log_fails) ==
    LET suggestion == SuggestionOf(reply)
        row        == LogRow(document_id, pass_number, suggestion)
    IN  IF log_fails
        THEN [suggestion |-> [suggestion EXCEPT !.error = WithLoggingFailed(@)],
              llm_request_log |-> llm_request_log]
        ELSE [suggestion |-> [suggestion EXCEPT !.log_id = row.id],
              llm_request_log |-> Append(llm_request_log, row)]

\* No call of _get_suggestion has ended yet.
NoReply == [failed |-> FALSE, text |-> <<>>]
NoCall == [outcome |-> "none", document_id |-> NoId, pass_number |-> 0,
           reply |-> NoReply, log_fails |-> FALSE, rows_before |-> 0,
           suggestion |-> None]

\* A call that was cancelled at `await self.client.chat(...)`:
\* asyncio.CancelledError is no Exception, so neither except clause of
\* _get_suggestion catches it and the call leaves without a log row.
Cancelled(document_id, pass_number) ==
    [NoCall EXCEPT !.outcome = "cancelled", !.document_id = document_id,
                   !.pass_number = pass_number,
                   !.rows_before = Len(llm_request_log)]

\* The same for a call whose worker a newer request of the group cancelled.
Superseded(document_id, pass_number) ==
    [Cancelled(document_id, pass_number) EXCEPT !.outcome = "superseded"]

\* A call that returned its suggestion.
Returned(document_id, pass_number, reply, log_fails, suggestion) ==
    [outcome |-> "returned", document_id |-> document_id,
     pass_number |-> pass_number, reply |-> reply, log_fails |-> log_fails,
     rows_before |-> Len(llm_request_log), suggestion |-> Some(suggestion)]

(***************************************************************************)
(* scripts/batch_review.py                                                 *)
(***************************************************************************)

\* No batch_review.py running.
NoBatch == [running |-> FALSE, pass_number |-> 0, documents |-> <<>>]

\* NOT EXISTS (SELECT 1 FROM pass_review pr WHERE pr.document_id = d.id
\* AND pr.pass_number = ? AND pr.llm_suggestion IS NOT NULL)
NoSuggestionYet(d, pass_number) ==
    ~\E r \in 1..Len(pass_review) :
        /\ pass_review[r].document_id = d
        /\ pass_review[r].pass_number = pass_number
        /\ pass_review[r].llm_suggestion # None

\* get_documents_for_batch: the ids of the rows of its query, ORDER BY d.id
\* (search_id NoId is None: all searches).
get_documents_for_batch(search_id, pass_number, unreviewed_only) ==
    LET selected(d) ==
            /\ search_id # NoId => document[d].search_id = search_id
            /\ unreviewed_only => NoSuggestionYet(d, pass_number)
        F[d \in 0..Len(document)] ==
            IF d = 0 THEN <<>>
            ELSE F[d - 1] \o
                 (IF ~selected(d) THEN <<>>
                  ELSE IF pass_number = 1 THEN <<d>>
                  ELSE [i \in 1..Cardinality(Pass1Join(d)) |-> d])
    IN  F[Len(document)]

\* save_llm_suggestion as INSERT OR REPLACE: every column of the row is written.
save_llm_suggestion_replace(document_id, pass_number, suggestion) ==
    Upsert([id |-> NoId, document_id |-> document_id, pass_number |-> pass_number,
            decision |-> NULL, notes |-> NULL,
            llm_suggestion |-> SuggestionToJson(Some(suggestion)),
            llm_accepted |-> NULL,
            llm_request_log_id |-> suggestion.log_id],
           {"decision", "notes", "llm_suggestion", "llm_accepted",
            "llm_request_log_id"})

\* save_llm_suggestion: the upsert that writes llm_suggestion and
\* llm_request_log_id only.
save_llm_suggestion(document_id, pass_number, suggestion) ==
    Upsert([id |-> NoId, document_id |-> document_id, pass_number |-> pass_number,
            decision |-> NULL, notes |-> NULL,
            llm_suggestion |-> SuggestionToJson(Some(suggestion)),
            llm_accepted |-> NULL,
            llm_request_log_id |-> suggestion.log_id],
           {"llm_suggestion", "llm_request_log_id"})

\* main up to asyncio.run(process_batch(...)): the list of documents is read
\* once, cut to --limit (0: no limit), and the run ends when it is empty.
BatchStart(search_id, pass_number, unreviewed_only, limit) ==
    /\ ~batch.running
    /\ LET all       == get_documents_for_batch(search_id, pass_number, unreviewed_only)
           documents == IF limit # 0 /\ limit < Len(all)
                        THEN SubSeq(all, 1, limit) ELSE all
       IN  batch' = IF documents = <<>> THEN NoBatch
                    ELSE [running |-> TRUE, pass_number |-> pass_number,
                          documents |-> documents]
    /\ UNCHANGED <<llm_request_log, lastCall>>
    /\ UNCHANGED <<importVars, passVars, promptVars, tuiVars>>

\* process_batch, one round of its loop: the suggestion for the next document
\* of the list, and save_llm_suggestion.
BatchRound(reply, log_fails) ==
    /\ batch.running
    /\ \E d \in {Head(batch.documents)} :
       \E r \in {get_suggestion(d, batch.pass_number, reply, log_fails)} :
           /\ llm_request_log' = r.llm_request_log
           /\ lastCall' = Returned(d, batch.pass_number, reply, log_fails, r.suggestion)
           /\ pass_review' = save_llm_suggestion(d, batch.pass_number, r.suggestion)
    /\ batch' = IF Tail(batch.documents) = <<>> THEN NoBatch
                ELSE [batch EXCEPT !.documents = Tail(@)]
    /\ UNCHANGED <<exclusion_code, pass_review_exclusion_code, lastSave>>
    /\ UNCHANGED <<importVars, promptVars, tuiVars>>

(***************************************************************************)
(* PassReviewScreen (app.py) and its LLM worker                            *)
(***************************************************************************)

\* No PassReviewScreen on the screen stack.  The fields are those __init__
\* sets; documents holds the ids of the Document objects.
NoScreen == [mounted |-> FALSE, search_id |-> NoId, pass_number |-> 0,
             documents |-> <<>>, current_index |-> 0,
             current_llm_suggestion |-> None, llm_loading |-> FALSE,
             pass_reviews_cache |-> <<>>]

\* _get_current_doc: the id of the current document, NoId for None.
CurrentDoc(scr) ==
    IF 0 <= scr.current_index /\ scr.current_index < Len(scr.documents)
    THEN scr.documents[scr.current_index + 1]
    ELSE NoId

\* `not review or review.decision is None` on a cached review.
Unreviewed(scr, i) ==
    \/ scr.pass_reviews_cache[scr.documents[i + 1]] = None
    \/ scr.pass_reviews_cache[scr.documents[i + 1]][1].decision = NULL

\* The least index of a set of indexes.
First(indexes) == CHOOSE i \in indexes : \A j \in indexes : i <= j

\* self.current_llm_suggestion or (review.llm_suggestion if review else None)
ShownSuggestion(scr) ==
    IF scr.current_llm_suggestion # None THEN scr.current_llm_suggestion
    ELSE IF CurrentDoc(scr) = NoId THEN None
    ELSE IF scr.pass_reviews_cache[CurrentDoc(scr)] = None THEN None
    ELSE scr.pass_reviews_cache[CurrentDoc(scr)][1].llm_suggestion

\* A call of _request_llm_suggestion: @work(exclusive=True, group="llm")
\* cancels the worker of the group that runs, and the new worker runs up to
\* its await: it returns when there is no current document, else it sets
\* llm_loading and awaits the reply for the current document.
request_llm_suggestion(scr, w) ==
    LET last == IF w = None THEN lastCall
                ELSE Superseded(w[1].document_id, scr.pass_number)
    IN  IF CurrentDoc(scr) = NoId
        THEN [screen |-> scr, worker |-> None, lastCall |-> last]
        ELSE [screen |-> [scr EXCEPT !.llm_loading = TRUE],
              worker |-> Some([document_id |-> CurrentDoc(scr)]),
              lastCall |-> last]

\* if get_setting("llm_auto_suggest", "false") == "true":
\*     self._request_llm_suggestion()
AutoSuggest(scr, w) ==
    IF llm_auto_suggest = "true" THEN request_llm_suggestion(scr, w)
    ELSE [screen |-> scr, worker |-> w, lastCall |-> lastCall]

\* _save_current: the pass_review table after it.
save_current(scr) ==
    LET doc    == CurrentDoc(scr)
        cached == IF doc = NoId THEN None ELSE scr.pass_reviews_cache[doc]
    IN  IF doc = NoId \/ cached = None THEN pass_review
        ELSE save_pass_review(doc, scr.pass_number, cached[1].decision,
                              cached[1].notes, ShownSuggestion(scr),
                              cached[1].llm_accepted).pass_review

\* on_mount of a PassReviewScreen(search_id, pass_number, start_doc_id)
\* pushed by the main menu or the browse screen.
MountPassReview(search_id, pass_number, start_doc_id) ==
    /\ ~screen.mounted
    /\ LET docs  == Ids(get_documents_for_pass_review(search_id, pass_number))
           cache == [d \in Range(docs) |-> get_pass_review(d, pass_number)]
           scr0  == [NoScreen EXCEPT !.mounted = TRUE, !.search_id = search_id,
                        !.pass_number = pass_number, !.documents = docs,
                        !.pass_reviews_cache = cache]
           found == IF start_doc_id # NoId
                    THEN {i \in 0..(Len(docs) - 1) : docs[i + 1] = start_doc_id}
                    ELSE {i \in 0..(Len(docs) - 1) : Unreviewed(scr0, i)}
           scr1  == [scr0 EXCEPT !.current_index =
                        IF found = {} THEN 0 ELSE First(found)]
           r     == AutoSuggest(scr1, worker)
       IN  /\ screen' = r.screen
           /\ worker' = r.worker
           /\ lastCall' = r.lastCall
    /\ UNCHANGED <<llm_request_log, batch>>
    /\ UNCHANGED <<llm_auto_suggest, importVars, passVars, promptVars>>

\* action_request_llm: the key l and the Request button.
RequestLlm ==
    /\ screen.mounted
    /\ LET r == request_llm_suggestion(screen, worker)
       IN  /\ screen' = r.screen
           /\ worker' = r.worker
           /\ lastCall' = r.lastCall
    /\ UNCHANGED <<llm_request_log, batch>>
    /\ UNCHANGED <<llm_auto_suggest, importVars, passVars, promptVars>>

\* The worker resumes after `await assistant.suggest_pass1/2(...)` with the
\* suggestion _get_suggestion returns for the document it asked about.
LlmResponds(reply, log_fails) ==
    /\ screen.mounted /\ worker # None
    /\ \E r \in {get_suggestion(worker[1].document_id, screen.pass_number,
                                  reply, log_fails)} :
           /\ screen' = [screen EXCEPT
                            !.current_llm_suggestion =
                                Some([r.suggestion EXCEPT
                                        !.document_id = worker[1].document_id]),
                            !.llm_loading = FALSE]
           /\ llm_request_log' = r.llm_request_log
           /\ lastCall' = Returned(worker[1].document_id, screen.pass_number,
                                   reply, log_fails, r.suggestion)
    /\ worker' = None
    /\ UNCHANGED batch
    /\ UNCHANGED <<llm_auto_suggest, importVars, passVars, promptVars>>

\* The screen after a move to index i: the suggestion is cleared, the display
\* updated and, with auto-suggest on, a request started.
MoveTo(scr, w, i) ==
    AutoSuggest([scr EXCEPT !.current_index = i, !.current_llm_suggestion = None], w)

\* action_next_paper
NextPaper ==
    /\ screen.mounted
    /\ pass_review' = save_current(screen)
    /\ LET r == IF screen.current_index < Len(screen.documents) - 1
                THEN MoveTo(screen, worker, screen.current_index + 1)
                ELSE [screen |-> screen, worker |-> worker, lastCall |-> lastCall]
       IN  /\ screen' = r.screen
           /\ worker' = r.worker
           /\ lastCall' = r.lastCall
    /\ UNCHANGED <<exclusion_code, pass_review_exclusion_code, lastSave>>
    /\ UNCHANGED <<llm_request_log, batch>>
    /\ UNCHANGED <<llm_auto_suggest, importVars, promptVars>>

\* action_prev_paper
PrevPaper ==
    /\ screen.mounted
    /\ pass_review' = save_current(screen)
    /\ LET r == IF screen.current_index > 0
                THEN MoveTo(screen, worker, screen.current_index - 1)
                ELSE [screen |-> screen, worker |-> worker, lastCall |-> lastCall]
       IN  /\ screen' = r.screen
           /\ worker' = r.worker
           /\ lastCall' = r.lastCall
    /\ UNCHANGED <<exclusion_code, pass_review_exclusion_code, lastSave>>
    /\ UNCHANGED <<llm_request_log, batch>>
    /\ UNCHANGED <<llm_auto_suggest, importVars, promptVars>>

\* action_random_unreviewed: random.choice over the unreviewed indexes.
RandomUnreviewed ==
    /\ screen.mounted
    /\ pass_review' = save_current(screen)
    /\ LET unreviewed_indices ==
                {i \in 0..(Len(screen.documents) - 1) : Unreviewed(screen, i)}
       IN  IF unreviewed_indices = {}
           THEN UNCHANGED <<screen, worker, lastCall>>
           ELSE \E i \in unreviewed_indices :
                    LET r == MoveTo(screen, worker, i)
                    IN  /\ screen' = r.screen
                        /\ worker' = r.worker
                        /\ lastCall' = r.lastCall
    /\ UNCHANGED <<exclusion_code, pass_review_exclusion_code, lastSave>>
    /\ UNCHANGED <<llm_request_log, batch>>
    /\ UNCHANGED <<llm_auto_suggest, importVars, promptVars>>

\* _make_decision(decision, code_ids) for the current document: the save,
\* the codes when code_ids is not empty, the cache entry dropped and read
\* again by the display, the suggestion cleared, and
\* _advance_to_next_unreviewed.  A decision the CHECK of pass_review rejects
\* makes the INSERT of save_pass_review raise: nothing is stored and the
\* exception ends the app.
MakeDecision(decision, code_ids) ==
    /\ screen.mounted /\ CurrentDoc(screen) # NoId
    /\ LET doc        == CurrentDoc(screen)
           cached     == screen.pass_reviews_cache[doc]
           notes      == IF cached = None THEN NULL ELSE cached[1].notes
           suggestion == ShownSuggestion(screen)
           accepted   == IF suggestion = None THEN NULL
                         ELSE IF suggestion[1].decision = decision THEN "True"
                         ELSE "False"
           s          == save_pass_review(doc, screen.pass_number, decision, notes,
                                          suggestion, accepted)
           c          == IF code_ids # <<>>
                         THEN set_pass_review_exclusion_codes(s.id, code_ids)
                         ELSE [codes |-> pass_review_exclusion_code, raised |-> FALSE]
           start      == screen.current_index
           after      == {i \in (start + 1)..(Len(screen.documents) - 1) :
                            Unreviewed(screen, i)}
           before     == {i \in 0..(start - 1) : Unreviewed(screen, i)}
       IN  /\ pass_review' = s.pass_review
           /\ pass_review_exclusion_code' = IF s.raised THEN pass_review_exclusion_code
                                            ELSE c.codes
           /\ IF s.raised \/ c.raised
              THEN \* sqlite3.IntegrityError leaves the handler: the app exits
                   /\ screen' = NoScreen
                   /\ worker' = None
                   /\ lastCall' = IF worker = None THEN lastCall
                                  ELSE Cancelled(worker[1].document_id,
                                                 screen.pass_number)
              ELSE LET scr1 == [screen EXCEPT
                                !.pass_reviews_cache[doc] =
                                    PassReviewIn(s.pass_review, c.codes, doc,
                                                 screen.pass_number),
                                !.current_llm_suggestion = None]
                       r    == IF after # {} THEN MoveTo(scr1, worker, First(after))
                               ELSE IF before # {}
                               THEN MoveTo(scr1, worker, First(before))
                               ELSE [screen |-> scr1, worker |-> worker,
                                     lastCall |-> lastCall]
                   IN  /\ screen' = r.screen
                       /\ worker' = r.worker
                       /\ lastCall' = r.lastCall
    /\ UNCHANGED <<exclusion_code, lastSave>>
    /\ UNCHANGED <<llm_request_log, batch>>
    /\ UNCHANGED <<llm_auto_suggest, importVars, promptVars>>

\* The ids of the exclusion codes a suggestion names, in id order:
\* [cid for cid, code, _ in all_codes if code in suggestion.exclusion_codes]
SuggestedCodeIds(codes) ==
    LET F[c \in 0..Len(exclusion_code)] ==
            IF c = 0 THEN <<>>
            ELSE IF exclusion_code[c].code \in Range(codes)
                 THEN Append(F[c - 1], exclusion_code[c].id)
                 ELSE F[c - 1]
    IN  F[Len(exclusion_code)]

\* _update_llm_panel: what the decision, reasoning and codes widgets show.
\* A suggestion with an error shows the error in place of the reasoning and
\* neither decision nor codes.
LlmPanel(scr) ==
    LET suggestion == ShownSuggestion(scr)
    IN  IF scr.llm_loading \/ suggestion = None
        THEN [decision |-> "", reasoning |-> "", codes |-> <<>>]
        ELSE IF suggestion[1].error # NULL
        THEN [decision |-> "", reasoning |-> suggestion[1].error, codes |-> <<>>]
        ELSE [decision |-> suggestion[1].decision,
              reasoning |-> suggestion[1].reasoning,
              codes |-> suggestion[1].exclusion_codes]

\* action_accept_llm up to its two early returns: there is a current
\* document and a suggestion without an error.
accept_llm_proceeds(scr) ==
    /\ scr.mounted /\ CurrentDoc(scr) # NoId
    /\ ShownSuggestion(scr) # None
    /\ ShownSuggestion(scr)[1].error = NULL

\* action_accept_llm: the decision of the suggestion shown, with its codes.
AcceptLlm ==
    /\ accept_llm_proceeds(screen)
    /\ IF ShownSuggestion(screen)[1].decision = "exclude"
       THEN MakeDecision("exclude",
                         SuggestedCodeIds(ShownSuggestion(screen)[1].exclusion_codes))
       ELSE MakeDecision(ShownSuggestion(screen)[1].decision, <<>>)

\* action_reject_llm
RejectLlm ==
    /\ screen.mounted
    /\ screen' = [screen EXCEPT !.current_llm_suggestion = None]
    /\ UNCHANGED <<worker, llm_auto_suggest, importVars, passVars, promptVars, llmVars>>

\* action_go_back: _save_current and pop_screen; the workers of the screen
\* are cancelled with it.
GoBack ==
    /\ screen.mounted
    /\ pass_review' = save_current(screen)
    /\ screen' = NoScreen
    /\ worker' = None
    /\ lastCall' = IF worker = None THEN lastCall
                   ELSE Cancelled(worker[1].document_id, screen.pass_number)
    /\ UNCHANGED <<exclusion_code, pass_review_exclusion_code, lastSave>>
    /\ UNCHANGED <<llm_request_log, batch>>
    /\ UNCHANGED <<llm_auto_suggest, importVars, promptVars>>

\* SettingsScreen.on_save, opened from the main menu.
SaveSettings(auto_suggest) ==
    /\ ~screen.mounted
    /\ llm_auto_suggest' = IF auto_suggest THEN "true" ELSE "false"
    /\ UNCHANGED <<screen, worker, importVars, passVars, promptVars, llmVars>>

(***************************************************************************)
(* Initial states                                                          *)
(***************************************************************************)

\* The store after init_db() on a new file: create_schema and the migrations.
\* The connections of the importers that may run side by side, and a
\* connection with no call of add_document in progress.
Connections == {1, 2}
NoCallYet == [pc |-> "idle", bibtex_key |-> 0, doi |-> NULL, search_id |-> NoId,
              existing |-> NoId, group_read |-> NoId,
              doc_id |-> NoId, group_id |-> NoId, retried |-> FALSE]
NoCalls == [c \in Connections |-> NoCallYet]

InitImportTables ==
    /\ search = <<>>
    /\ document = <<>>
    /\ duplicate_group = <<>>
    /\ review = <<>>
    /\ stats = ZeroStats
    /\ lastImport = NoImport
    /\ calls = NoCalls

InitPassTables ==
    /\ exclusion_code = [i \in 1..Len(DefaultExclusionCodes) |->
                            [id |-> i, code |-> DefaultExclusionCodes[i]]]
    /\ pass_review = <<>>
    /\ pass_review_exclusion_code = {}
    /\ lastSave = NoSave

InitPromptTables ==
    /\ prompt_version = <<>>
    /\ lastSync = NoSync

InitTui ==
    /\ screen = NoScreen
    /\ worker = None
    /\ llm_auto_suggest = "false"

InitLlm ==
    /\ llm_request_log = <<>>
    /\ lastCall = NoCall
    /\ batch = NoBatch

Init == InitImportTables /\ InitPassTables /\ InitPromptTables /\ InitTui /\ InitLlm

(***************************************************************************)
(* The import: populate_db.py and the legacy review on an empty store      *)
(***************************************************************************)

NextImport ==
    \/ \E source \in Sources : AddSearch(source)
    \/ \E k \in BibKeys, doi \in Dois : ImportEntry(k, doi)
    \/ MigrateDuplicateSupport

SpecImport == Init /\ [][NextImport]_vars

\* The import of entries with one DOI or none, and the legacy review screen.
SharedDois == {NULL, "10.1/x"}

NextShared ==
    \/ \E source \in Sources : AddSearch(source)
    \/ \E k \in BibKeys, doi \in SharedDois : ImportEntry(k, doi)
    \/ \E d \in BibKeys, inc \in {"True", "False", NULL} : ReviewDecision(d, inc)

SpecShared == Init /\ [][NextShared]_vars

(***************************************************************************)
(* The two-pass review on a store with a duplicate group                   *)
(***************************************************************************)

MaxPassReviews == 2

\* The import tables after main has imported two searches: entries 1 (DOI
\* 10.1/x) and 2 (no DOI) of acm, then entry 3 (DOI 10.1/x) of ieee.
ImportedStore ==
    <<  <<"acm", "ieee">>,
        <<[id |-> 1, bibtex_key |-> 1, doi |-> "10.1/x", search_id |-> 1,
           duplicate_group_id |-> 1],
          [id |-> 2, bibtex_key |-> 2, doi |-> NULL, search_id |-> 1,
           duplicate_group_id |-> NoId],
          [id |-> 3, bibtex_key |-> 3, doi |-> "10.1/x", search_id |-> 2,
           duplicate_group_id |-> 1]>>,
        <<[id |-> 1, doi |-> "10.1/x"]>>,
        <<[id |-> 1, document_id |-> 1, included |-> NULL, notes |-> NULL],
          [id |-> 2, document_id |-> 2, included |-> NULL, notes |-> NULL]>>,
        [entries_added |-> 1, duplicates_skipped |-> 0, doi_duplicates |-> 1],
        [called |-> TRUE, existing |-> 1, doc_id |-> 3, group_id |-> 1,
         stats_before |-> ZeroStats]  >>

InitImported ==
    /\ search = ImportedStore[1]
    /\ document = ImportedStore[2]
    /\ duplicate_group = ImportedStore[3]
    /\ review = ImportedStore[4]
    /\ stats = ImportedStore[5]
    /\ lastImport = ImportedStore[6]
    /\ calls = NoCalls
    /\ InitPassTables /\ InitPromptTables /\ InitTui /\ InitLlm

PassNumbers == {1, 2}

\* The web review page posting decisions (no notes, no exclusion_codes key)
\* for the documents of the store, in either pass.
NextPass ==
    \E d \in 1..Len(document), p \in PassNumbers, decision \in Decisions \cup {NULL} :
        /\ PassReviewRow(pass_review, d, p) # NoId \/ Len(pass_review) < MaxPassReviews
        /\ ApiSaveReview(d, p, decision, NULL, None)

SpecPass == InitImported /\ [][NextPass]_vars

(***************************************************************************)
(* The prompt sync on an empty store                                       *)
(***************************************************************************)

NextPrompt ==
    \/ \E n \in PromptNames, c \in Contents : SyncPrompt(n, c)
    \/ SyncInvalidFile

SpecPrompt == Init /\ [][NextPrompt]_vars

(***************************************************************************)
(* Saving and reading back a pass review                                   *)
(***************************************************************************)

MaxCodes == 2

\* The code lists of a request: known codes and one exclusion_code lacks.
CodeStrings == {"EX1", "EX2", "EX99"}
CodeLists == UNION {[1..n -> CodeStrings] : n \in 0..MaxCodes}

\* The id lists of the TUI: ids of exclusion_code rows.
CodeIdLists == UNION {[1..n -> {1, 2}] : n \in 0..MaxCodes}

Notes == {NULL, "n"}

\* Saves of the pass-1 review of document 1, through the web API and through
\* the two functions of the TUI.
NextSave ==
    \/ \E decision \in Decisions \cup {NULL}, notes \in Notes,
          codes \in {None} \cup {Some(l) : l \in CodeLists} :
            ApiSaveReview(1, 1, decision, notes, codes)
    \/ \E decision \in Decisions \cup {NULL}, notes \in Notes,
          code_ids \in CodeIdLists :
            SaveThenSetCodes(1, 1, decision, notes, code_ids)

SpecSave == InitImported /\ [][NextSave]_vars

(***************************************************************************)
(* The pass-1 review screen of the first search                            *)
(***************************************************************************)

\* The selections of the exclusion code modal.
ModalSelections == {<<2, 1>>}

\* The model server answers at most MaxLogRows requests with a logged reply.
MaxLogRows == 1

\* A reply of the model server: a text.
Reply(text) == [failed |-> FALSE, text |-> text]

\* The object that suggests to exclude with a code of exclusion_code and one
\* it lacks, alone on a line.
ExcludeObject ==
    <<Open, StrPair("decision", "exclude"), NumPair("confidence", 90),
      StrPair("reasoning", "r"), ListPair("exclusion_codes", <<"EX1", "EX99">>),
      StrPair("domain", "health"), Close>>
TextObject == <<ExcludeObject>>

\* The reply of the model server: the object.
Replies == {Reply(TextObject)}

NextTui ==
    \/ \E start_doc_id \in {NoId} \cup (1..Len(document)) :
            MountPassReview(1, 1, start_doc_id)
    \/ RequestLlm
    \/ \E reply \in Replies :
            Len(llm_request_log) < MaxLogRows /\ LlmResponds(reply, FALSE)
    \/ NextPaper
    \/ PrevPaper
    \/ RandomUnreviewed
    \/ \E decision \in {"include", "uncertain"} : MakeDecision(decision, <<>>)
    \/ \E code_ids \in ModalSelections : MakeDecision("exclude", code_ids)
    \/ AcceptLlm
    \/ RejectLlm
    \/ GoBack
    \/ \E auto_suggest \in BOOLEAN : SaveSettings(auto_suggest)

SpecTui == InitImported /\ [][NextTui]_vars

(***************************************************************************)
(* LLM suggestions in the pass-1 review screen of the first search         *)
(***************************************************************************)

\* The same object in a code block, after a word of prose, and with a code
\* that exclusion_code lacks only.
TextFenced == << <<Fence>>, ExcludeObject, <<Fence>> >>
TextProse  == << <<Word>> \o ExcludeObject >>
TextUnknownCode ==
    << <<Open, StrPair("decision", "exclude"),
         ListPair("exclusion_codes", <<"EX99">>), Close>> >>

\* Objects without a decision and with a decision that is none of the three.
TextNoDecision    == << <<Open, StrPair("reasoning", "r"), Close>> >>
TextOtherDecision == << <<Open, StrPair("decision", "maybe"), Close>> >>

\* Prose, braces around prose, and a JSON number.
TextNotJson == << <<Word, Word>> >>
TextBraces  == << <<Open, Word, Close>> >>
TextNumber  == << <<Number>> >>

\* The replies of the model server, and client.chat raising.
CallFailed == [failed |-> TRUE, text |-> <<>>]
LlmReplies ==
    {Reply(t) : t \in {TextObject, TextFenced, TextProse, TextUnknownCode,
                       TextNoDecision, TextOtherDecision, TextNotJson,
                       TextBraces, TextNumber}} \cup {CallFailed}

\* The replies the review screen is given: the object, the object whose only
\* code exclusion_code lacks, and client.chat raising.
ScreenReplies == {Reply(TextObject), Reply(TextUnknownCode), CallFailed}

NextLlm ==
    \/ MountPassReview(1, 1, NoId)
    \/ RequestLlm
    \/ \E reply \in ScreenReplies, log_fails \in BOOLEAN :
            /\ ~log_fails => Len(llm_request_log) < MaxLogRows
            /\ LlmResponds(reply, log_fails)
    \/ \E code_ids \in ModalSelections : MakeDecision("exclude", code_ids)
    \/ AcceptLlm
    \/ RejectLlm
    \/ \E accepted \in BOOLEAN : ApiLlmAccept(1, 1, accepted)
    \/ GoBack

SpecLlm == InitImported /\ [][NextLlm]_vars

(***************************************************************************)
(* batch_review over the first search, pass 1, with every kind of reply    *)
(***************************************************************************)

NextSuggest ==
    \/ \E unreviewed_only \in BOOLEAN, limit \in 0..1 :
            BatchStart(1, 1, unreviewed_only, limit)
    \/ \E reply \in LlmReplies, log_fails \in BOOLEAN :
            /\ batch.running
            /\ ~log_fails => Len(llm_request_log) < MaxLogRows
            /\ BatchRound(reply, log_fails)

SpecSuggest == InitImported /\ [][NextSuggest]_vars

(***************************************************************************)
(* The progress counts: web decisions and batch suggestions                *)
(***************************************************************************)

NextProgress ==
    \/ \E d \in 1..Len(document), p \in PassNumbers,
          decision \in Decisions \cup {NULL} :
            /\ PassReviewRow(pass_review, d, p) # NoId
                    \/ Len(pass_review) < MaxPassReviews
            /\ ApiSaveReview(d, p, decision, NULL, None)
    \/ \E search_id \in 0..Len(search), p \in PassNumbers,
          unreviewed_only \in BOOLEAN, limit \in 0..1 :
            BatchStart(search_id, p, unreviewed_only, limit)
    \/ \E reply \in Replies, log_fails \in BOOLEAN :
            /\ batch.running
            /\ ~log_fails => Len(llm_request_log) < MaxLogRows
            /\ PassReviewRow(pass_review, Head(batch.documents), batch.pass_number) # NoId
                    \/ Len(pass_review) < MaxPassReviews
            /\ BatchRound(reply, log_fails)

SpecProgress == InitImported /\ [][NextProgress]_vars

(***************************************************************************)
(* Web decisions, web llm-accept and batch suggestions on one store        *)
(***************************************************************************)

\* The exclusion_codes of the web requests: absent, or two known codes.
FrameCodes == {None, Some(<<"EX1", "EX2">>)}

\* The replies of the model server to the batch: the object, or no reply.
FrameReplies == {Reply(TextObject), CallFailed}

\* POST /api/documents/1/review for pass 1.
FrameSave ==
    \E decision \in {"include", "exclude"}, notes \in Notes, codes \in FrameCodes :
        ApiSaveReview(1, 1, decision, notes, codes)

\* One round of the batch loop, with either reply.
FrameBatchRound ==
    \E reply \in FrameReplies, log_fails \in BOOLEAN :
        /\ batch.running
        /\ ~log_fails => Len(llm_request_log) < MaxLogRows
        /\ BatchRound(reply, log_fails)

NextFrame ==
    \/ FrameSave
    \/ \E accepted \in BOOLEAN : ApiLlmAccept(1, 1, accepted)
    \/ \E unreviewed_only \in BOOLEAN : BatchStart(1, 1, unreviewed_only, 1)
    \/ FrameBatchRound

SpecFrame == InitImported /\ [][NextFrame]_vars

(***************************************************************************)
(* The legacy review on a store that predates duplicate groups             *)
(***************************************************************************)

\* The import tables of a store filled before duplicate_group existed: the
\* same DOI imported once by each search, every document with its own blank
\* review and no group.
LegacyStore ==
    <<  <<"acm", "ieee">>,
        <<[id |-> 1, bibtex_key |-> 1, doi |-> "10.1/x", search_id |-> 1,
           duplicate_group_id |-> NoId],
          [id |-> 2, bibtex_key |-> 2, doi |-> "10.1/x", search_id |-> 2,
           duplicate_group_id |-> NoId]>>,
        <<>>,
        <<[id |-> 1, document_id |-> 1, included |-> NULL, notes |-> NULL],
          [id |-> 2, document_id |-> 2, included |-> NULL, notes |-> NULL]>>,
        ZeroStats,
        NoImport  >>

InitLegacy ==
    /\ search = LegacyStore[1]
    /\ document = LegacyStore[2]
    /\ duplicate_group = LegacyStore[3]
    /\ review = LegacyStore[4]
    /\ stats = LegacyStore[5]
    /\ lastImport = LegacyStore[6]
    /\ calls = NoCalls
    /\ InitPassTables /\ InitPromptTables /\ InitTui /\ InitLlm

\* init_db() migrating the store, further imports into the second search and
\* the legacy review screen.
NextLegacy ==
    \/ MigrateDuplicateSupport
    \/ \E k \in BibKeys, doi \in SharedDois : ImportEntry(k, doi)
    \/ \E d \in BibKeys, inc \in {"True", "False", NULL} : ReviewDecision(d, inc)

SpecLegacy == InitLegacy /\ [][NextLegacy]_vars

(***************************************************************************)
(* Two importers calling add_document side by side (populate_db.py)        *)
(***************************************************************************)

\* add_document from its first write on, with duplicate_group.doi not UNIQUE.
add_document_write_no_unique(existing, group_read, bibtex_key, doi, search_id) ==
    LET create   == existing # NoId /\ group_read = NoId
        newGid   == Len(duplicate_group) + 1
        gid      == IF create THEN newGid ELSE group_read
        groups1  == IF create THEN Append(duplicate_group, [id |-> newGid, doi |-> doi])
                    ELSE duplicate_group
        docs1    == IF create
                    THEN [document EXCEPT ![existing].duplicate_group_id = newGid]
                    ELSE document
        keyDup   == \E i \in 1..Len(document) : document[i].bibtex_key = bibtex_key
        newId    == Len(document) + 1
        row      == [id |-> newId, bibtex_key |-> bibtex_key, doi |-> doi,
                     search_id |-> search_id, duplicate_group_id |-> gid]
    IN  IF keyDup
        THEN [document |-> document, duplicate_group |-> duplicate_group,
              doc_id |-> NoId, group_id |-> NoId, raised |-> FALSE]
        ELSE [document |-> Append(docs1, row), duplicate_group |-> groups1,
              doc_id |-> newId, group_id |-> gid, raised |-> FALSE]

\* add_document from its first write on, for a call whose DOI check fetched
\* the row `existing` (NoId: none) with duplicate_group_id `group_read`.  The
\* first INSERT opens the transaction of the connection and SQLite lets one
\* connection write at a time, so the writes up to commit() or rollback()
\* apply to the committed tables as one step.
add_document_write(existing, group_read, bibtex_key, doi, search_id) ==
    LET \* if existing: ... if not duplicate_group_id: create a new group
        create   == existing # NoId /\ group_read = NoId
        \* duplicate_group.doi is UNIQUE; this INSERT is outside the try block
        groupDup == create /\ \E g \in 1..Len(duplicate_group) : duplicate_group[g].doi = doi
        newGid   == Len(duplicate_group) + 1
        gid      == IF create THEN newGid ELSE group_read
        groups1  == IF create THEN Append(duplicate_group, [id |-> newGid, doi |-> doi])
                    ELSE duplicate_group
        \* UPDATE document SET duplicate_group_id = ? WHERE id = existing.id
        docs1    == IF create
                    THEN [document EXCEPT ![existing].duplicate_group_id = newGid]
                    ELSE document
        \* document.bibtex_key is UNIQUE: IntegrityError, caught, rollback
        keyDup   == \E i \in 1..Len(document) : document[i].bibtex_key = bibtex_key
        newId    == Len(document) + 1
        row      == [id |-> newId, bibtex_key |-> bibtex_key, doi |-> doi,
                     search_id |-> search_id, duplicate_group_id |-> gid]
    IN  IF groupDup
        THEN [document |-> document, duplicate_group |-> duplicate_group,
              doc_id |-> NoId, group_id |-> NoId, raised |-> TRUE]
        ELSE IF keyDup
        THEN [document |-> document, duplicate_group |-> duplicate_group,
              doc_id |-> NoId, group_id |-> NoId, raised |-> FALSE]
        ELSE [document |-> Append(docs1, row), duplicate_group |-> groups1,
              doc_id |-> newId, group_id |-> gid, raised |-> FALSE]

\* The DOI check of add_document on connection c: the SELECT runs outside a
\* transaction and fetchone() keeps one matching row and its group id.
DoiCheck(c, bibtex_key, doi, search_id, retried) ==
    \E existing \in (IF Truthy(doi) /\ DoiMatches(doi) # {}
                     THEN DoiMatches(doi) ELSE {NoId}) :
        calls' = [calls EXCEPT ![c] =
                    [pc |-> "read", bibtex_key |-> bibtex_key, doi |-> doi,
                     search_id |-> search_id, existing |-> existing,
                     group_read |-> IF existing = NoId THEN NoId
                                    ELSE document[existing].duplicate_group_id,
                     doc_id |-> NoId, group_id |-> NoId, retried |-> retried]]

\* add_document(conn, bibtex_key, ..., doi, ..., search_id) called on
\* connection c, up to the end of its DOI check.
AddDocumentRead(c, bibtex_key, doi, search_id) ==
    /\ calls[c].pc = "idle"
    /\ DoiCheck(c, bibtex_key, doi, search_id, FALSE)
    /\ UNCHANGED <<search, document, duplicate_group, review, stats, lastImport>>
    /\ UNCHANGED <<passVars, promptVars, tuiVars, llmVars>>

\* The rest of the call on connection c: it returns, or the IntegrityError
\* of the group INSERT leaves it and the transaction is lost.
AddDocumentWrite(c) ==
    /\ calls[c].pc = "read"
    /\ LET r == add_document_write(calls[c].existing, calls[c].group_read,
                                   calls[c].bibtex_key, calls[c].doi,
                                   calls[c].search_id)
       IN  /\ document' = r.document
           /\ duplicate_group' = r.duplicate_group
           /\ calls' = [calls EXCEPT ![c].pc = IF r.raised THEN "failed" ELSE "done",
                                     ![c].doc_id = r.doc_id,
                                     ![c].group_id = r.group_id]
    /\ UNCHANGED <<search, review, stats, lastImport>>
    /\ UNCHANGED <<passVars, promptVars, tuiVars, llmVars>>

\* The caller of a failed call calls add_document again for the same entry.
AddDocumentRetry(c) ==
    /\ calls[c].pc = "failed" /\ ~calls[c].retried
    /\ DoiCheck(c, calls[c].bibtex_key, calls[c].doi, calls[c].search_id, TRUE)
    /\ UNCHANGED <<search, document, duplicate_group, review, stats, lastImport>>
    /\ UNCHANGED <<passVars, promptVars, tuiVars, llmVars>>

\* The import tables after one search was imported: one document with a DOI,
\* in no group, with its blank review; two more searches are being imported.
RaceStore ==
    <<  <<"acm", "ieee", "scopus">>,
        <<[id |-> 1, bibtex_key |-> 1, doi |-> "10.1/x", search_id |-> 1,
           duplicate_group_id |-> NoId]>>,
        <<>>,
        <<[id |-> 1, document_id |-> 1, included |-> NULL, notes |-> NULL]>>,
        ZeroStats,
        NoImport  >>

InitRace ==
    /\ search = RaceStore[1]
    /\ document = RaceStore[2]
    /\ duplicate_group = RaceStore[3]
    /\ review = RaceStore[4]
    /\ stats = RaceStore[5]
    /\ lastImport = RaceStore[6]
    /\ calls = NoCalls
    /\ InitPassTables /\ InitPromptTables /\ InitTui /\ InitLlm

NextRace ==
    \/ \E c \in Connections, k \in BibKeys, doi \in SharedDois :
            AddDocumentRead(c, k, doi, c + 1)
    \/ \E c \in Connections : AddDocumentWrite(c)
    \/ \E c \in Connections : AddDocumentRetry(c)

SpecRace == InitRace /\ [][NextRace]_vars

(***************************************************************************)
(* The whole program: every script, the web API and the TUI on one store   *)
(***************************************************************************)

Next ==
    \/ NextImport
    \/ \E d \in BibKeys, inc \in {"True", "False", NULL} : ReviewDecision(d, inc)
    \/ \E d \in 1..Len(document), p \in PassNumbers,
          decision \in Decisions \cup {NULL}, notes \in Notes,
          codes \in {None} \cup {Some(l) : l \in CodeLists} :
            /\ PassReviewRow(pass_review, d, p) # NoId \/ Len(pass_review) < MaxPassReviews
            /\ ApiSaveReview(d, p, decision, notes, codes)
    \/ NextPrompt
    \/ \E search_id \in 1..Len(search), p \in PassNumbers,
          start_doc_id \in {NoId} \cup (1..Len(document)) :
            MountPassReview(search_id, p, start_doc_id)
    \/ RequestLlm
    \/ \E reply \in LlmReplies, log_fails \in BOOLEAN :
            Len(llm_request_log) < MaxLogRows /\ LlmResponds(reply, log_fails)
    \/ \E search_id \in 0..Len(search), p \in PassNumbers,
          unreviewed_only \in BOOLEAN, limit \in 0..1 :
            BatchStart(search_id, p, unreviewed_only, limit)
    \/ \E reply \in LlmReplies, log_fails \in BOOLEAN :
            Len(llm_request_log) < MaxLogRows /\ BatchRound(reply, log_fails)
    \/ \E d \in 1..Len(document), p \in PassNumbers, accepted \in BOOLEAN :
            ApiLlmAccept(d, p, accepted)
    \/ NextPaper
    \/ PrevPaper
    \/ RandomUnreviewed
    \/ \E decision \in {"include", "uncertain"} : MakeDecision(decision, <<>>)
    \/ \E code_ids \in ModalSelections : MakeDecision("exclude", code_ids)
    \/ AcceptLlm
    \/ RejectLlm
    \/ GoBack
    \/ \E auto_suggest \in BOOLEAN : SaveSettings(auto_suggest)
    \/ \E c \in Connections, k \in BibKeys, doi \in Dois, search_id \in 1..Len(search) :
            AddDocumentRead(c, k, doi, search_id)
    \/ \E c \in Connections : AddDocumentWrite(c)
    \/ \E c \in Connections : AddDocumentRetry(c)

Spec == Init /\ [][Next]_vars

SameDoi(i, j) == i # j /\ Truthy(document[i].doi) /\ document[i].doi = document[j].doi

\* C1: two documents with distinct bibtex keys and the same non-null,
\* non-empty DOI, imported in either order, hold the same non-null
\* duplicate_group_id, and the duplicate_group row of that id has their DOI.
C1_SharedDoiSameGroup ==
    \A i, j \in 1..Len(document) :
        SameDoi(i, j) =>
            /\ document[i].bibtex_key # document[j].bibtex_key
            /\ document[i].duplicate_group_id # NoId
            /\ document[i].duplicate_group_id = document[j].duplicate_group_id
            /\ document[i].duplicate_group_id \in 1..Len(duplicate_group)
            /\ duplicate_group[document[i].duplicate_group_id].id
                  = document[i].duplicate_group_id
            /\ duplicate_group[document[i].duplicate_group_id].doi = document[i].doi

\* Two documents with one DOI have been imported, the second into a later search.
C1_Witness ==
    \E i, j \in 1..Len(document) :
        SameDoi(i, j) /\ document[i].search_id # document[j].search_id

\* C2: after any sequence of imports, a document with a duplicate_group_id
\* has the DOI of the group row it references; the documents that share a
\* non-empty DOI with another document all reference one group; and no DOI
\* has a second group row.
C2_GroupsFollowDoi ==
    /\ \A i \in 1..Len(document) :
          document[i].duplicate_group_id # NoId =>
              /\ document[i].duplicate_group_id \in 1..Len(duplicate_group)
              /\ duplicate_group[document[i].duplicate_group_id].doi = document[i].doi
    /\ \A i, j \in 1..Len(document) :
          SameDoi(i, j) =>
              /\ document[i].duplicate_group_id # NoId
              /\ document[i].duplicate_group_id = document[j].duplicate_group_id
    /\ \A g, h \in 1..Len(duplicate_group) :
          duplicate_group[g].doi = duplicate_group[h].doi => g = h

\* A third document has been attached to the group of its DOI, next to a
\* group of another DOI.
C2_Witness ==
    /\ \E i, j, k \in 1..Len(document) :
          i < j /\ j < k /\ SameDoi(i, j) /\ SameDoi(j, k)
              /\ document[k].duplicate_group_id = document[i].duplicate_group_id
    /\ Len(duplicate_group) = 1

InGroupOf(d, e) ==
    /\ document[d].duplicate_group_id # NoId
    /\ document[d].duplicate_group_id = document[e].duplicate_group_id

\* C4: two entries with the same DOI and different bibtex keys, imported from
\* two different searches, leave exactly one duplicate group with both
\* documents linked to it, both resolve to one review_id, and the decision
\* stored through that review_id (whichever of the two it was saved for) is
\* the included value that get_documents_for_search and get_all_documents
\* return for the other.
C4_GroupSharesLegacyReview ==
    \A i, j \in 1..Len(document) :
        (SameDoi(i, j) /\ document[i].search_id # document[j].search_id) =>
            /\ Cardinality({g \in 1..Len(duplicate_group) :
                                duplicate_group[g].doi = document[i].doi}) = 1
            /\ InGroupOf(i, j)
            /\ \A ri \in get_documents_for_search(document[i].search_id),
                  rj \in get_all_documents :
                    (ri.id = i /\ rj.id = j) =>
                        /\ ri.review_id # NoId
                        /\ ri.review_id = rj.review_id
                        /\ ri.included = BoolOfInt(review[ri.review_id].included)
                        /\ rj.included = ri.included

\* A decision is stored on the review that two documents of one DOI, imported
\* from two searches, both resolve to.
C4_Witness ==
    \E i, j \in 1..Len(document) :
        /\ SameDoi(i, j) /\ document[i].search_id # document[j].search_id
        /\ \E row \in get_all_documents : row.id = j /\ row.included = "True"
        /\ OwnReview(j) = NoId

\* The documents other than d of d's duplicate group that have a pass_review
\* row with a decision for pass p.
SiblingDecisions(d, p) ==
    {pass_review[r].decision :
        r \in {r \in 1..Len(pass_review) :
                /\ pass_review[r].pass_number = p
                /\ pass_review[r].document_id # d
                /\ pass_review[r].document_id \in 1..Len(document)
                /\ InGroupOf(d, pass_review[r].document_id)
                /\ pass_review[r].decision # NULL}}

\* C3: a document without a PassReview row of its own for a pass, with a
\* sibling of its duplicate group that has a decision for that pass, reads the
\* sibling's decision from get_pass_review (TUI and web); a document with its
\* own row reads its own.
C3_SiblingPassReviewFallback ==
    \A d \in 1..Len(document), p \in PassNumbers :
        LET own == PassReviewRow(pass_review, d, p)
            tui == get_pass_review(d, p)
            web == web_get_pass_review(d, p)
        IN  /\ (own = NoId /\ SiblingDecisions(d, p) # {}) =>
                    /\ tui # None /\ tui[1].decision \in SiblingDecisions(d, p)
                    /\ web # None /\ web[1].decision \in SiblingDecisions(d, p)
            /\ own # NoId =>
                    /\ tui # None /\ tui[1].decision = pass_review[own].decision
                    /\ web # None /\ web[1].decision = pass_review[own].decision

\* A list of ids that is strictly increasing (ORDER BY d.id, no row twice).
Increasing(ids) == \A i, j \in 1..Len(ids) : i < j => ids[i] < ids[j]

\* C5: the pass-1 list of a search is all documents of the search, and the
\* pass-2 list is exactly the documents of the search whose own pass-1
\* decision is include or uncertain at the time of the read (no pass-1 row, a
\* NULL decision or exclude keep a document out, whatever its pass-2 row
\* says), each document once, in id order, in the TUI and in the web list.
C5_PassListsFollowPass1 ==
    \A s \in 1..Len(search) :
        LET tui1 == Ids(get_documents_for_pass_review(s, 1))
            web1 == Ids(get_documents_for_pass(s, 1))
            tui2 == Ids(get_documents_for_pass_review(s, 2))
            web2 == Ids(get_documents_for_pass(s, 2))
        IN  /\ tui1 = web1 /\ Increasing(tui1)
            /\ Range(tui1) = {d \in 1..Len(document) : document[d].search_id = s}
            /\ tui2 = web2 /\ Increasing(tui2)
            /\ Range(tui2) =
                {d \in 1..Len(document) :
                    /\ document[d].search_id = s
                    /\ PassReviewRow(pass_review, d, 1) # NoId
                    /\ pass_review[PassReviewRow(pass_review, d, 1)].decision
                            \in {"include", "uncertain"}}

\* Document 1 is excluded in pass 1 and is not in the pass-2 list of its
\* search; document 2 of the same search was just saved as uncertain and is.
C5_Witness ==
    /\ lastSave.api = "web" /\ lastSave.document_id = 2
    /\ lastSave.pass_number = 1 /\ lastSave.decision = "uncertain"
    /\ Ids(get_documents_for_pass(1, 2)) = <<2>>
    /\ Ids(get_documents_for_pass_review(1, 1)) = <<1, 2>>
    /\ \E r \in 1..Len(pass_review) :
        /\ pass_review[r].document_id = 1 /\ pass_review[r].pass_number = 1
        /\ pass_review[r].decision = "exclude"

\* The last round of the sync loop handled a prompt file.
Synced == lastSync.result \notin {"none", "ERROR"}

\* The row inserted last for a prompt name.
LastInserted(n) == CHOOSE r \in NameRows(n) : \A q \in NameRows(n) : q <= r

\* C7: a sync whose content equals an older, non-latest version of the same
\* prompt name succeeds and inserts a new row with the highest id holding
\* that content, which get_active_prompts then returns for the name.
C7_ResyncOldContentInsertsNewVersion ==
    (Synced /\ lastSync.older) =>
        /\ lastSync.result = "UPDATED"
        /\ Cardinality(NameRows(lastSync.prompt_name)) = lastSync.rows_before + 1
        /\ LET last == prompt_version[Len(prompt_version)]
           IN  /\ last.prompt_name = lastSync.prompt_name
               /\ last.content = lastSync.content
               /\ \A r \in 1..Len(prompt_version) : prompt_version[r].id <= last.id
               /\ get_active_prompts[lastSync.prompt_name]
                    = {<<last.id, lastSync.content>>}

\* C8: a sync whose content equals the latest stored version of the name
\* adds no row (so two syncs in a row with identical content leave one row
\* for a new name), and every sync whose content differs from the latest
\* version adds exactly one row.
C8_SyncAddsRowIffChanged ==
    Synced =>
        /\ lastSync.latest_before = lastSync.content =>
                Cardinality(NameRows(lastSync.prompt_name)) = lastSync.rows_before
        /\ lastSync.latest_before # lastSync.content =>
                Cardinality(NameRows(lastSync.prompt_name)) = lastSync.rows_before + 1

\* C9: for every prompt name with at least one version, get_active_prompts has
\* exactly one entry: the id is the highest id of the name's rows and the
\* content is that of the version inserted last for the name (after a sync
\* that inserted, the content just synced).
C9_ActivePromptIsLatest ==
    /\ DOMAIN get_active_prompts =
            {prompt_version[r].prompt_name : r \in 1..Len(prompt_version)}
    /\ \A n \in DOMAIN get_active_prompts :
        /\ Cardinality(get_active_prompts[n]) = 1
        /\ \A e \in get_active_prompts[n] :
            /\ \A r \in NameRows(n) : prompt_version[r].id <= e[1]
            /\ e[1] = prompt_version[LastInserted(n)].id
            /\ e[2] = prompt_version[LastInserted(n)].content
    /\ lastSync.result \in {"NEW", "UPDATED"} =>
            \E e \in get_active_prompts[lastSync.prompt_name] : e[2] = lastSync.content

\* Both names have versions, one of them two, and the last sync updated it.
C9_Witness ==
    /\ lastSync.result = "UPDATED"
    /\ Cardinality(NameRows(lastSync.prompt_name)) >= 2
    /\ \A n \in PromptNames : n \in DOMAIN get_active_prompts

\* The codes of the exclusion_code rows with the ids of a list.
CodesOfIds(code_ids) ==
    {exclusion_code[c].code :
        c \in {c \in 1..Len(exclusion_code) : exclusion_code[c].id \in Range(code_ids)}}

\* The codes the last save listed: the strings of the web request (all codes
\* stored before when the request had no exclusion_codes), the codes of the
\* ids of the TUI.
ListedCodes ==
    IF lastSave.api = "tui" THEN CodesOfIds(lastSave.code_ids)
    ELSE IF lastSave.exclusion_codes = None THEN lastSave.codes_before
    ELSE Range(lastSave.exclusion_codes[1])

\* What get_pass_review returns for the key of the last save, in the
\* interface that saved.
ReadBack ==
    IF lastSave.api = "tui"
    THEN get_pass_review(lastSave.document_id, lastSave.pass_number)
    ELSE web_get_pass_review(lastSave.document_id, lastSave.pass_number)

ListedTwice ==
    IF lastSave.api = "tui" THEN HasRepeat(lastSave.code_ids)
    ELSE /\ lastSave.exclusion_codes # None
         /\ \E i, j \in 1..Len(lastSave.exclusion_codes[1]) :
                /\ i < j
                /\ lastSave.exclusion_codes[1][i] = lastSave.exclusion_codes[1][j]
                /\ \E c \in 1..Len(exclusion_code) :
                        exclusion_code[c].code = lastSave.exclusion_codes[1][i]

C6_NoStaleSuggestion ==
    (screen.mounted /\ screen.current_llm_suggestion # None) =>
        screen.current_llm_suggestion[1].document_id = CurrentDoc(screen)

\* C11: after any sequence of pass-1 and pass-2 saves and batch suggestions,
\* get_pass_progress has pass1.reviewed <= total and pass2.reviewed <=
\* pass2.eligible for every search (reviewed is human_reviewed in the web).
C11_ReviewedWithinBounds ==
    \A s \in 1..Len(search) :
        /\ get_pass_progress(s).pass1.reviewed <= get_pass_progress(s).total
        /\ get_pass_progress(s).pass2.reviewed <= get_pass_progress(s).pass2.eligible
        /\ web_get_pass_progress(s).pass1.human_reviewed <= web_get_pass_progress(s).total
        /\ web_get_pass_progress(s).pass2.human_reviewed
                <= web_get_pass_progress(s).pass2.eligible

\* C12: for every search, pass2.eligible of get_pass_progress (TUI and web)
\* is the number of the search's documents whose pass-1 decision is include
\* or uncertain, which is the length of the pass-2 list, and is at most total.
C12_EligibleCountsPass1 ==
    \A s \in 1..Len(search) :
      LET EligibleDocuments ==
            {d \in 1..Len(document) :
                /\ document[d].search_id = s
                /\ PassReviewRow(pass_review, d, 1) # NoId
                /\ pass_review[PassReviewRow(pass_review, d, 1)].decision
                        \in {"include", "uncertain"}}
      IN
        /\ get_pass_progress(s).pass2.eligible = Cardinality(EligibleDocuments)
        /\ get_pass_progress(s).pass2.eligible
                = Len(get_documents_for_pass_review(s, 2))
        /\ get_pass_progress(s).pass2.eligible <= get_pass_progress(s).total
        /\ web_get_pass_progress(s).pass2.eligible = Cardinality(EligibleDocuments)
        /\ web_get_pass_progress(s).pass2.eligible = Len(get_documents_for_pass(s, 2))
        /\ web_get_pass_progress(s).pass2.eligible <= web_get_pass_progress(s).total

\* One document of the first search is eligible after a web save, next to a
\* pass-1 row of the search that holds a batch suggestion and no decision.
C12_Witness ==
    /\ lastSave.api = "web" /\ lastSave.pass_number = 1
    /\ lastSave.decision \in {"include", "uncertain"}
    /\ get_pass_progress(1).pass2.eligible = 1
    /\ get_pass_progress(1).total = 2
    /\ \E r \in PassRows(1, 1) :
        pass_review[r].decision = NULL /\ pass_review[r].llm_suggestion # None

\* C13: every LLMSuggestion that _get_suggestion returns, and every one
\* batch_review stores, has a decision among include, exclude and uncertain,
\* whatever the decision member of the reply holds.
C13_DecisionIsOneOfThree ==
    /\ lastCall.outcome = "returned" =>
            lastCall.suggestion[1].decision \in Decisions
    /\ \A r \in 1..Len(pass_review) :
            pass_review[r].llm_suggestion # None =>
                SuggestionFromJson(pass_review[r].llm_suggestion)[1].decision
                    \in Decisions

\* The last call degraded to the error shape: uncertain, confidence 0, an
\* error text, the reply text kept unless client.chat raised, and, when the
\* log write went through, one new row for the call with the error and with
\* decision, confidence, reasoning and domain NULL.
DegradedAndLogged ==
    LET s == lastCall.suggestion[1]
        n == Len(llm_request_log)
    IN  /\ s.decision = "uncertain" /\ s.confidence = 0 /\ s.error # NULL
        /\ ~lastCall.reply.failed => s.raw_response = lastCall.reply.text
        /\ ~lastCall.log_fails =>
            /\ n = lastCall.rows_before + 1 /\ s.log_id = llm_request_log[n].id
            /\ llm_request_log[n].document_id = lastCall.document_id
            /\ llm_request_log[n].pass_number = lastCall.pass_number
            /\ llm_request_log[n].error # NULL
            /\ llm_request_log[n].decision = NULL
            /\ llm_request_log[n].confidence = NoNumber
            /\ llm_request_log[n].reasoning = NULL
            /\ llm_request_log[n].domain = NULL

\* C14 as stated: when the reply text is not JSON (json.loads rejects it as it
\* is) or client.chat raises, the call returns the error shape and logs it.
C14_NotJsonDegrades ==
    (/\ lastCall.outcome = "returned"
     /\ \/ lastCall.reply.failed
        \/ ~json_loads(Join(Strip(lastCall.reply.text))).ok)
        => DegradedAndLogged

\* C14: when no JSON value can be read from the reply text after the code
\* fences are removed and the text is cut from its first "{" to its last "}",
\* or when client.chat raises, the call returns the error shape and logs it.
C14_UnparsableDegrades ==
    (/\ lastCall.outcome = "returned"
     /\ \/ lastCall.reply.failed
        \/ ~parse_llm_response(lastCall.reply.text).ok)
        => DegradedAndLogged

\* Braces around prose were the reply for document 2, and the call was logged.
C14_Witness ==
    /\ lastCall.outcome = "returned" /\ lastCall.reply = Reply(TextBraces)
    /\ lastCall.document_id = 2 /\ ~lastCall.log_fails
    /\ llm_request_log[Len(llm_request_log)].raw_response = TextBraces
    /\ llm_request_log[Len(llm_request_log)].decision = NULL

\* C15: every request that was started and has ended, by returning a
\* suggestion or by being superseded by a newer request of the screen, has
\* added exactly one llm_request_log row for its document and pass, unless
\* the log write failed.
C15_OneLogRowPerRequest ==
    (lastCall.outcome \in {"returned", "superseded"} /\ ~lastCall.log_fails) =>
        /\ Len(llm_request_log) = lastCall.rows_before + 1
        /\ llm_request_log[Len(llm_request_log)].document_id = lastCall.document_id
        /\ llm_request_log[Len(llm_request_log)].pass_number = lastCall.pass_number

\* C16: when the reply of a call parsed into a suggestion and the log write
\* failed, the call returns the suggestion with the failure text as its
\* error, and the screen that holds it shows its decision, reasoning and
\* codes and accepts it on request.
C16_LoggingFailureStillShown ==
    (/\ lastCall.outcome = "returned" /\ lastCall.log_fails
     /\ SuggestionOf(lastCall.reply).error = NULL
     /\ screen.mounted
     /\ screen.current_llm_suggestion =
            Some([lastCall.suggestion[1] EXCEPT !.document_id = lastCall.document_id]))
        => /\ lastCall.suggestion[1].error = "Logging failed"
           /\ LlmPanel(screen).decision = SuggestionOf(lastCall.reply).decision
           /\ LlmPanel(screen).reasoning = SuggestionOf(lastCall.reply).reasoning
           /\ LlmPanel(screen).codes = SuggestionOf(lastCall.reply).exclusion_codes
           /\ accept_llm_proceeds(screen)

\* C17: a step of action_accept_llm on a suggestion without an error stores
\* the suggestion's decision for the current document with llm_accepted true
\* and, when the decision is exclude, leaves the review linked to exactly the
\* suggested codes that exclusion_code holds.
C17_AcceptStoresSuggestion ==
    [][AcceptLlm =>
        LET s     == ShownSuggestion(screen)[1]
            after == PassReviewIn(pass_review', pass_review_exclusion_code',
                                  CurrentDoc(screen), screen.pass_number)
        IN  /\ after # None
            /\ after[1].decision = s.decision
            /\ after[1].llm_accepted = "True"
            /\ s.decision = "exclude" =>
                    after[1].exclusion_codes =
                        {c \in Range(s.exclusion_codes) :
                            \E e \in 1..Len(exclusion_code) :
                                exclusion_code[e].code = c}]_vars

\* The decision and the notes of every pass_review row, and the links to
\* exclusion codes.
Persisted ==
    <<[r \in 1..Len(pass_review) |->
            [document_id |-> pass_review[r].document_id,
             pass_number |-> pass_review[r].pass_number,
             decision |-> pass_review[r].decision,
             notes |-> pass_review[r].notes]],
      pass_review_exclusion_code>>

\* C18: a step of action_reject_llm, or of the web llm-accept request with
\* accepted = false for any document and pass, leaves the decision, the notes
\* and the exclusion codes of every pass_review row as they were.
C18_RejectKeepsPersisted ==
    [][(\/ RejectLlm
        \/ \E d \in 1..Len(document), p \in PassNumbers : ApiLlmAccept(d, p, FALSE))
            => Persisted' = Persisted]_vars

\* The web request rejected the suggestion stored with the review of
\* document 1, which keeps its decision exclude and its two codes.
C18_Witness ==
    /\ lastSave.api = "llm-reject" /\ lastSave.document_id = 1
    /\ lastSave.codes_before = {"EX1", "EX2"}
    /\ get_pass_review(1, 1) # None
    /\ get_pass_review(1, 1)[1].decision = "exclude"
    /\ get_pass_review(1, 1)[1].llm_suggestion # None
    /\ get_pass_review(1, 1)[1].llm_accepted = "False"
    /\ get_pass_review(1, 1)[1].exclusion_codes = {"EX1", "EX2"}

\* C19: add_document for an entry whose bibtex_key a document already has
\* returns (None, None) without raising and leaves document and
\* duplicate_group as they were, for every DOI of the entry and every row the
\* DOI lookup may fetch; the import loop counts the entry once in
\* duplicates_skipped and in nothing else.
C19_DuplicateKeySkipped ==
    /\ \A k \in BibKeys, doi \in Dois :
        (\E i \in 1..Len(document) : document[i].bibtex_key = k) =>
            \A existing \in (IF Truthy(doi) /\ DoiMatches(doi) # {}
                             THEN DoiMatches(doi) ELSE {NoId}) :
                LET r == add_document(existing, k, doi, Len(search))
                IN  /\ ~r.raised
                    /\ r.doc_id = NoId /\ r.group_id = NoId
                    /\ r.document = document
                    /\ r.duplicate_group = duplicate_group
    /\ (lastImport.called /\ lastImport.doc_id = NoId) =>
            /\ lastImport.group_id = NoId
            /\ stats = [lastImport.stats_before EXCEPT !.duplicates_skipped = @ + 1]

\* The last entry imported had the key of a document and the DOI of a
\* document that is in no group: it was skipped, no group row exists and the
\* document is still in no group.
C19_Witness ==
    /\ lastImport.called /\ lastImport.doc_id = NoId
    /\ lastImport.existing # NoId
    /\ document[lastImport.existing].duplicate_group_id = NoId
    /\ Truthy(document[lastImport.existing].doi)
    /\ duplicate_group = <<>>
    /\ stats.duplicates_skipped = 1 /\ stats.entries_added = 1

\* C20: whatever was imported and in whatever order, every document whose
\* DOI is null or the empty string is in no duplicate group, no
\* duplicate_group row has such a DOI, and add_document for one more such
\* entry returns no group and adds no duplicate_group row.
C20_NoDoiNeverGrouped ==
    /\ \A i \in 1..Len(document) :
            document[i].doi \in {NULL, ""} => document[i].duplicate_group_id = NoId
    /\ \A g \in 1..Len(duplicate_group) : duplicate_group[g].doi \notin {NULL, ""}
    /\ \A k \in BibKeys, doi \in {NULL, ""} :
            LET r == add_document(NoId, k, doi, Len(search))
            IN  /\ ~r.raised /\ r.group_id = NoId
                /\ r.duplicate_group = duplicate_group

\* Two documents with the empty string as DOI were imported, the second one
\* last, next to a document with a real DOI: no group row exists.
C20_Witness ==
    /\ Cardinality({i \in 1..Len(document) : document[i].doi = ""}) = 2
    /\ \E i \in 1..Len(document) : document[i].doi = "10.1/x"
    /\ duplicate_group = <<>>
    /\ lastImport.called /\ lastImport.doc_id # NoId
    /\ document[lastImport.doc_id].doi = ""

\* C21: after any sequence of decisions, accepted suggestions and navigation
\* in the review screen, a pass_review row is linked to exclusion codes only
\* while its decision is exclude.
C21_CodesOnlyWhileExcluded ==
    \A r \in 1..Len(pass_review) :
        ReviewCodes(pass_review[r].id) # {} => pass_review[r].decision = "exclude"

\* The codes a complete save leaves linked: the listed codes that
\* exclusion_code holds.
KnownListedCodes ==
    {c \in ListedCodes : \E e \in 1..Len(exclusion_code) : exclusion_code[e].code = c}

\* The last save came with a list of exclusion codes to store.
SaveListsCodes ==
    \/ lastSave.api = "web" /\ lastSave.exclusion_codes # None
    \/ lastSave.api = "tui" /\ lastSave.code_ids # <<>>

\* C22: every save of a decision together with exclusion codes is atomic:
\* after the step, also when it fails part-way (a code listed twice violates
\* the unique constraint of the junction), either the new decision and the
\* new code links are both stored or the review and its links are as they
\* were before the step.
C22_SaveWithCodesAtomic ==
    [][SaveListsCodes' =>
        \/ /\ ReadBack' # None
           /\ ReadBack'[1].decision = lastSave'.decision
           /\ ReadBack'[1].exclusion_codes = KnownListedCodes'
        \/ /\ pass_review' = pass_review
           /\ pass_review_exclusion_code' = pass_review_exclusion_code]_vars

\* C23: for every search and each pass, the reviewed count get_pass_progress
\* returns (human_reviewed in the web) equals included + excluded + uncertain,
\* also when pass_review rows exist that hold only an LLM suggestion.
C23_ReviewedIsSumOfDecisions ==
    \A s \in 1..Len(search) :
        /\ get_pass_progress(s).pass1.reviewed =
                get_pass_progress(s).pass1.included
                    + get_pass_progress(s).pass1.excluded
                    + get_pass_progress(s).pass1.uncertain
        /\ get_pass_progress(s).pass2.reviewed =
                get_pass_progress(s).pass2.included
                    + get_pass_progress(s).pass2.excluded
                    + get_pass_progress(s).pass2.uncertain
        /\ web_get_pass_progress(s).pass1.human_reviewed =
                web_get_pass_progress(s).pass1.included
                    + web_get_pass_progress(s).pass1.excluded
                    + web_get_pass_progress(s).pass1.uncertain
        /\ web_get_pass_progress(s).pass2.human_reviewed =
                web_get_pass_progress(s).pass2.included
                    + web_get_pass_progress(s).pass2.excluded
                    + web_get_pass_progress(s).pass2.uncertain

\* C24: when the review screen shows a suggestion fetched for the current
\* document and the reviewer moves to another document without deciding, the
\* pass_review table afterwards has a row for the document left behind that
\* holds a suggestion.
C24_SuggestionStoredOnNavigation ==
    [][(/\ screen.mounted /\ screen'.mounted
        /\ screen.current_llm_suggestion # None
        /\ screen.current_llm_suggestion[1].document_id = CurrentDoc(screen)
        /\ CurrentDoc(screen') # CurrentDoc(screen))
       => /\ PassReviewRow(pass_review', CurrentDoc(screen), screen.pass_number) # NoId
          /\ pass_review'[PassReviewRow(pass_review', CurrentDoc(screen),
                                        screen.pass_number)].llm_suggestion # None]_vars


\* What the table prs stores for (document_id, pass_number) in the columns a
\* human save writes and in those a suggestion writes; a missing row stores
\* nothing in either.
HumanColumns(prs, document_id, pass_number) ==
    IF PassReviewRow(prs, document_id, pass_number) = NoId
    THEN [decision |-> NULL, notes |-> NULL, llm_accepted |-> NULL]
    ELSE [decision |-> prs[PassReviewRow(prs, document_id, pass_number)].decision,
          notes |-> prs[PassReviewRow(prs, document_id, pass_number)].notes,
          llm_accepted |->
                prs[PassReviewRow(prs, document_id, pass_number)].llm_accepted]

LlmColumns(prs, document_id, pass_number) ==
    IF PassReviewRow(prs, document_id, pass_number) = NoId
    THEN [llm_suggestion |-> None, llm_accepted |-> NULL]
    ELSE [llm_suggestion |->
                prs[PassReviewRow(prs, document_id, pass_number)].llm_suggestion,
          llm_accepted |->
                prs[PassReviewRow(prs, document_id, pass_number)].llm_accepted]

\* C25: a web save of a human decision, on a new or an existing row, leaves
\* the stored llm_suggestion and llm_accepted of every document and pass as
\* they were; a batch save of an LLM suggestion leaves the stored decision,
\* notes, llm_accepted and exclusion codes as they were.
C25_DecisionAndSuggestionIndependent ==
    [][/\ FrameSave =>
            \A d \in 1..Len(document), p \in PassNumbers :
                LlmColumns(pass_review', d, p) = LlmColumns(pass_review, d, p)
       /\ FrameBatchRound =>
            /\ \A d \in 1..Len(document), p \in PassNumbers :
                    HumanColumns(pass_review', d, p) = HumanColumns(pass_review, d, p)
            /\ pass_review_exclusion_code' = pass_review_exclusion_code]_vars

\* The review of document 1 holds the decision exclude with notes and two
\* codes, an accepted flag and the suggestion of a later batch round whose
\* request failed (the request whose row is in llm_request_log came first);
\* the last save was a web save.
C25_Witness ==
    /\ lastSave.api = "web" /\ lastSave.document_id = 1
    /\ lastCall.document_id = 1 /\ lastCall.reply = CallFailed
    /\ Len(llm_request_log) = 1
    /\ get_pass_review(1, 1) # None
    /\ get_pass_review(1, 1)[1].decision = "exclude"
    /\ get_pass_review(1, 1)[1].notes = "n"
    /\ get_pass_review(1, 1)[1].llm_accepted = "True"
    /\ get_pass_review(1, 1)[1].llm_suggestion # None
    /\ get_pass_review(1, 1)[1].exclusion_codes = {"EX1", "EX2"}

\* The suggestion the screen holds for its current document: the one of this
\* session when it was requested for that document, else the one persisted
\* with the cached review.
SuggestionForCurrent(scr) ==
    IF scr.current_llm_suggestion # None
        /\ scr.current_llm_suggestion[1].document_id = CurrentDoc(scr)
    THEN scr.current_llm_suggestion
    ELSE IF scr.pass_reviews_cache[CurrentDoc(scr)] = None THEN None
    ELSE scr.pass_reviews_cache[CurrentDoc(scr)][1].llm_suggestion

\* The llm_accepted of every pass_review row.
AcceptedFlags ==
    [r \in 1..Len(pass_review) |-> pass_review[r].llm_accepted]

\* C26: a step of _make_decision that stores a decision stores llm_accepted
\* as null when no suggestion of this session or persisted exists for the
\* document and pass, and else as true exactly when that suggestion's decision
\* is the stored decision; a navigation step (_save_current) keeps the
\* llm_accepted of every row.
C26_AcceptedFollowsSuggestion ==
    [][/\ ((\/ \E decision \in {"include", "uncertain"} : MakeDecision(decision, <<>>)
            \/ \E code_ids \in ModalSelections : MakeDecision("exclude", code_ids))
           /\ screen'.mounted)
         => LET after == PassReviewIn(pass_review', pass_review_exclusion_code',
                                      CurrentDoc(screen), screen.pass_number)
                s     == SuggestionForCurrent(screen)
            IN  /\ after # None
                /\ after[1].llm_accepted =
                        IF s = None THEN NULL
                        ELSE IF s[1].decision = after[1].decision THEN "True"
                        ELSE "False"
       /\ (NextPaper \/ PrevPaper \/ RandomUnreviewed \/ GoBack)
         => AcceptedFlags' = AcceptedFlags]_vars

\* C29: in the review screen, every suggestion stored with a pass_review row
\* comes from a request made for the document and pass of that row: a row of
\* llm_request_log for that document and pass carries its decision.
C29_StoredSuggestionOfOwnRequest ==
    \A r \in 1..Len(pass_review) :
        pass_review[r].llm_suggestion # None =>
            \E l \in 1..Len(llm_request_log) :
                /\ llm_request_log[l].document_id = pass_review[r].document_id
                /\ llm_request_log[l].pass_number = pass_review[r].pass_number
                /\ llm_request_log[l].decision = pass_review[r].llm_suggestion[1].decision


\* The reviews with a decision of the other members of the group of d.
DecidedInGroup(d) ==
    {r \in 1..Len(review) :
        /\ review[r].included # NULL
        /\ review[r].document_id # d
        /\ document[d].duplicate_group_id # NoId
        /\ document[review[r].document_id].duplicate_group_id
                = document[d].duplicate_group_id}

\* C27: every row get_all_documents returns for a document resolves the
\* review in the stated order: the document's own review when its included is
\* not null; else, for a member of a duplicate group, included and notes of
\* another member whose included is not null, also when the document has a
\* blank review of its own; else pending (included null).
C27_EffectiveReviewOrder ==
    \A d \in 1..Len(document) : \A row \in DocumentRows(d) :
        IF OwnReview(d) # NoId /\ review[OwnReview(d)].included # NULL
        THEN row.included = BoolOfInt(review[OwnReview(d)].included)
        ELSE IF DecidedInGroup(d) # {}
        THEN \E g \in DecidedInGroup(d) :
                /\ row.included = BoolOfInt(review[g].included)
                /\ row.notes = review[g].notes
        ELSE row.included = NULL


\* Both connections fetched the same ungrouped document in the DOI check of
\* their first attempt, for the same DOI.
BothReadUngrouped ==
    /\ \A c \in Connections :
            /\ calls[c].pc # "idle" /\ ~calls[c].retried
            /\ calls[c].existing # NoId /\ calls[c].group_read = NoId
    /\ calls[1].doi = calls[2].doi
    /\ calls[1].existing = calls[2].existing

\* The rows of duplicate_group for a DOI.
GroupsOf(doi) == {g \in 1..Len(duplicate_group) : duplicate_group[g].doi = doi}

ReviewsOfGroup(g) ==
    {r \in 1..Len(review) : document[review[r].document_id].duplicate_group_id = g}

\* C30: after any sequence of imports, every ungrouped document has its own
\* review row, every duplicate group has exactly one review row among its
\* members, and the query of get_all_documents returns exactly one row per
\* document, with a review_id that is not null.
C30_OneReviewPerDocument ==
    /\ \A d \in 1..Len(document) :
            /\ document[d].duplicate_group_id = NoId => OwnReview(d) # NoId
            /\ Cardinality(DocumentRows(d)) = 1
            /\ \A row \in DocumentRows(d) : row.review_id # NoId
    /\ \A g \in 1..Len(duplicate_group) : Cardinality(ReviewsOfGroup(g)) = 1

\* Three imported documents: two share a DOI and a group with one review (the
\* second has no row of its own), the third is ungrouped with its own review.
C30_Witness ==
    /\ Len(document) = 3 /\ Len(duplicate_group) = 1 /\ Len(review) = 2
    /\ document[1].duplicate_group_id = 1 /\ document[2].duplicate_group_id = 1
    /\ document[3].duplicate_group_id = NoId
    /\ OwnReview(2) = NoId /\ OwnReview(3) # NoId
    /\ \A row \in DocumentRows(2) : row.review_id = review[OwnReview(1)].id

====
